---------------------------- MODULE Spec2Model ----------------------------
(***************************************************************************)
(* A model of the GP-5 / GP-50 preset converter: the bounds-checked byte   *)
(* cursor (BinaryReader / BinaryWriter), the signature-driven parser, the  *)
(* GP-50 writer and the conversion engine.                                 *)
(*                                                                         *)
(* Bytes are naturals 0..255, byte buffers are sequences of bytes, text    *)
(* strings are sequences of Unicode code points.  A Python call either     *)
(* returns or raises; its outcome is a record with a "status" field.       *)
(***************************************************************************)
EXTENDS Integers, Sequences, FiniteSets, TLC

VARIABLES
    rdata,            \* BinaryReader.data
    roffset,          \* BinaryReader.offset
    rret,             \* outcome of the last BinaryReader call
    format_detected,  \* PresetParser.format_detected
    pfile,            \* the file handed to the last parse_file call
    parsed,           \* outcome of the last parse_file call
    wpreset,          \* the GP50Preset handed to PresetWriter.write_gp50
    outfile,          \* the file at the writer's output path
    heap,             \* the effect dictionaries, by object identity
    src,              \* the GP5Preset handed to the converter
    tgt,              \* outcome of CoreConverter.convert
    compat,           \* outcome of CoreConverter.check_compatibility
    edits,            \* number of changes made to the converted preset
    eret,             \* outcome of the last change to the converted preset
    vpPrev,           \* the _validate_parameter call before the last one
    vpLast,           \* the last _validate_parameter call
    vcall,            \* the last PresetValidator call: operation, argument, outcome
    fs,               \* the file system: its directories and the bytes of its files
    fcall,            \* the last file operation: its arguments and outcome
    backupLog,        \* the backups made so far: path and content copied
    acall,            \* the last BinaryAnalyzer call: its arguments and result
    wdata,            \* BinaryWriter.data
    wcall,            \* the last write_string call: text, length, data before it, rank
    rback,            \* outcome of reading the last written string back
    pclass,           \* the class of the preset under edit: GP5Preset or GP50Preset
    pobj,             \* the preset under edit: name, version, parameters
    pcall,            \* the last call on the preset: operation, argument, outcome
    pedits            \* number of calls made on the preset

vars == <<rdata, roffset, rret, format_detected, pfile, parsed, wpreset,
          outfile, heap, src, tgt, compat, edits, eret, vpPrev, vpLast, vcall,
          fs, fcall, backupLog, acall, wdata, wcall, rback,
          pclass, pobj, pcall, pedits>>

readerVars == <<rdata, roffset, rret>>
parserVars == <<format_detected, pfile, parsed>>
writerVars == <<wpreset, outfile>>
converterVars == <<heap, src, tgt, compat, edits, eret>>
clampVars == <<vpPrev, vpLast>>
validatorVars == <<vcall>>
fileVars == <<fs, fcall, backupLog>>
analyzerVars == <<acall>>
stringVars == <<wdata, wcall, rback>>
presetVars == <<pclass, pobj, pcall, pedits>>
utilityVars == <<validatorVars, fileVars, analyzerVars, stringVars, presetVars>>

----------------------------------------------------------------------------
(* Bounds of the model.                                                    *)

MaxDataLen == 4      \* longest buffer given to a BinaryReader
MaxCount == 2        \* largest count / length argument of a reader call
MaxSkew == 2         \* how far skip and seek may move the cursor off the buffer
MaxRawLen == 3       \* longest unstructured file given to the parser
MaxNameLen == 2      \* longest preset name, in code points
MaxVersionLen == 1   \* longest version string, in code points
MaxChain == 2        \* longest source effects chain
MaxEdits == 1        \* changes made to a converted preset
MaxExcess == 2       \* how far a clamped value lies outside its range

----------------------------------------------------------------------------
(* Python values.                                                          *)

None == [t |-> "none"]
PyInt(n) == [t |-> "int", v |-> n]
PyStr(s) == [t |-> "str", v |-> s]
IsNumber(x) == x.t = "int"

Returned(x) == [status |-> "returned", value |-> x]
Raised(e) == [status |-> "raised", error |-> e]
NoCall == [status |-> "none"]

Min(a, b) == IF a < b THEN a ELSE b
Max(a, b) == IF a > b THEN a ELSE b

\* s[a:b] of Python, for any integers a and b
PySlice(s, a, b) ==
    LET n == Len(s)
        norm(i) == IF i < 0 THEN Max(i + n, 0) ELSE Min(i, n)
        lo == norm(a)
        hi == norm(b)
    IN  IF lo < hi THEN SubSeq(s, lo + 1, hi) ELSE <<>>

\* s.startswith(prefix)
StartsWith(s, prefix) ==
    /\ Len(s) >= Len(prefix)
    /\ SubSeq(s, 1, Len(prefix)) = prefix

\* s.find(b"\x00") + 1, and 0 when there is none
RECURSIVE FindNullFrom(_, _)
FindNullFrom(s, i) ==
    IF i > Len(s) THEN 0
    ELSE IF s[i] = 0 THEN i
    ELSE FindNullFrom(s, i + 1)

----------------------------------------------------------------------------
(* Text encodings: str.encode("utf-8"), bytes.decode("utf-8") and          *)
(* bytes.decode("latin-1").                                                *)

EncodeChar(c) ==
    IF c < 128 THEN <<c>>
    ELSE IF c < 2048 THEN <<192 + (c \div 64), 128 + (c % 64)>>
    ELSE IF c < 65536
        THEN <<224 + (c \div 4096), 128 + ((c \div 64) % 64), 128 + (c % 64)>>
    ELSE <<240 + (c \div 262144), 128 + ((c \div 4096) % 64),
           128 + ((c \div 64) % 64), 128 + (c % 64)>>

RECURSIVE Utf8Encode(_)
Utf8Encode(text) ==
    IF text = <<>> THEN <<>>
    ELSE EncodeChar(Head(text)) \o Utf8Encode(Tail(text))

IsCont(b, i) == i <= Len(b) /\ b[i] >= 128 /\ b[i] <= 191

\* length of the well-formed UTF-8 sequence starting at b[i], 0 when ill-formed
Utf8SeqLen(b, i) ==
    LET x == b[i] IN
    IF x < 128 THEN 1
    ELSE IF x >= 194 /\ x <= 223
        THEN IF IsCont(b, i + 1) THEN 2 ELSE 0
    ELSE IF x >= 224 /\ x <= 239
        THEN IF /\ IsCont(b, i + 1)
                /\ IsCont(b, i + 2)
                /\ (x = 224 => b[i + 1] >= 160)
                /\ (x = 237 => b[i + 1] <= 159)
             THEN 3 ELSE 0
    ELSE IF x >= 240 /\ x <= 244
        THEN IF /\ IsCont(b, i + 1)
                /\ IsCont(b, i + 2)
                /\ IsCont(b, i + 3)
                /\ (x = 240 => b[i + 1] >= 144)
                /\ (x = 244 => b[i + 1] <= 143)
             THEN 4 ELSE 0
    ELSE 0

CodePoint(b, i, n) ==
    IF n = 1 THEN b[i]
    ELSE IF n = 2 THEN (b[i] - 192) * 64 + (b[i + 1] - 128)
    ELSE IF n = 3
        THEN (b[i] - 224) * 4096 + (b[i + 1] - 128) * 64 + (b[i + 2] - 128)
    ELSE (b[i] - 240) * 262144 + (b[i + 1] - 128) * 4096
             + (b[i + 2] - 128) * 64 + (b[i + 3] - 128)

RECURSIVE Utf8DecodeFrom(_, _)
Utf8DecodeFrom(b, i) ==
    IF i > Len(b) THEN [ok |-> TRUE, text |-> <<>>]
    ELSE LET n == Utf8SeqLen(b, i) IN
         IF n = 0 THEN [ok |-> FALSE, text |-> <<>>]
         ELSE LET rest == Utf8DecodeFrom(b, i + n) IN
              [ok |-> rest.ok, text |-> <<CodePoint(b, i, n)>> \o rest.text]

\* latin-1 maps every byte to the code point of the same number
Latin1Decode(b) == b

\* data.decode(encoding), falling back to latin-1 on UnicodeDecodeError
DecodeWithFallback(b) ==
    LET r == Utf8DecodeFrom(b, 1) IN
    IF r.ok THEN r.text ELSE Latin1Decode(b)

\* str.isspace() of one character
IsSpace(c) ==
    \/ c \in 9..13
    \/ c \in 28..32
    \/ c \in {133, 160, 5760, 8232, 8233, 8239, 8287, 12288}
    \/ c \in 8192..8202

RECURSIVE LStrip(_)
LStrip(text) ==
    IF text # <<>> /\ IsSpace(Head(text)) THEN LStrip(Tail(text)) ELSE text

RECURSIVE RStrip(_)
RStrip(text) ==
    IF text # <<>> /\ IsSpace(text[Len(text)])
    THEN RStrip(SubSeq(text, 1, Len(text) - 1))
    ELSE text

\* str.strip()
Strip(text) == RStrip(LStrip(text))

----------------------------------------------------------------------------
(* BinaryReader.  Every operation maps (data, offset) to the new offset    *)
(* and the call's outcome.                                                 *)

Step(off, ret) == [off |-> off, ret |-> ret]

ReadBytes(data, off, count) ==
    IF off + count > Len(data)
    THEN Step(off, Raised("IndexError"))
    ELSE Step(off + count, Returned(PySlice(data, off, off + count)))

\* self.read_bytes(1)[0]
ReadByte(data, off) ==
    LET r == ReadBytes(data, off, 1) IN
    IF r.ret.status = "raised" THEN r
    ELSE IF r.ret.value = <<>> THEN Step(r.off, Raised("IndexError"))
    ELSE Step(r.off, Returned(r.ret.value[1]))

RECURSIVE BigEndianValue(_)
BigEndianValue(b) ==
    IF b = <<>> THEN 0
    ELSE b[Len(b)] + 256 * BigEndianValue(SubSeq(b, 1, Len(b) - 1))

\* struct.unpack of an integer format on exactly Len(b) bytes.  A 16-bit
\* value is an integer; a 32-bit value v is kept as its two 16-bit words,
\* v = hi * 65536 + lo, the high word carrying the sign.
Unpack(b, little_endian, signed) ==
    LET be == IF little_endian THEN [i \in 1..Len(b) |-> b[Len(b) + 1 - i]] ELSE b
        Word(w) == BigEndianValue(w)
        Sign(u) == IF signed /\ u >= 32768 THEN u - 65536 ELSE u
    IN  IF Len(b) = 2 THEN Sign(Word(be))
        ELSE [hi |-> Sign(Word(SubSeq(be, 1, 2))), lo |-> Word(SubSeq(be, 3, 4))]

\* read_uint16, read_uint32, read_int16, read_int32
ReadInteger(data, off, width, little_endian, signed) ==
    LET r == ReadBytes(data, off, width) IN
    IF r.ret.status = "raised" THEN r
    ELSE IF Len(r.ret.value) # width THEN Step(r.off, Raised("struct.error"))
    ELSE Step(r.off, Returned(Unpack(r.ret.value, little_endian, signed)))

\* the float is kept as its IEEE-754 bit pattern
ReadFloat(data, off, little_endian) ==
    LET r == ReadBytes(data, off, 4) IN
    IF r.ret.status = "raised" THEN r
    ELSE IF Len(r.ret.value) # 4 THEN Step(r.off, Raised("struct.error"))
    ELSE Step(r.off, Returned([float32 |-> Unpack(r.ret.value, little_endian, FALSE)]))

ReadString(data, off, length) ==
    LET r == ReadBytes(data, off, length) IN
    IF r.ret.status = "raised" THEN r
    ELSE LET d == r.ret.value
             null_pos == FindNullFrom(d, 1)
             cut == IF null_pos # 0 THEN SubSeq(d, 1, null_pos - 1) ELSE d
         IN  Step(r.off, Returned(DecodeWithFallback(cut)))

RECURSIVE CStringLoop(_, _, _)
CStringLoop(data, off, chars) ==
    IF off < Len(data)
    THEN LET r == ReadByte(data, off) IN
         IF r.ret.status = "raised" THEN r
         ELSE IF r.ret.value = 0
             THEN Step(r.off, Returned(DecodeWithFallback(chars)))
         ELSE CStringLoop(data, r.off, Append(chars, r.ret.value))
    ELSE Step(off, Returned(DecodeWithFallback(chars)))

ReadCString(data, off) == CStringLoop(data, off, <<>>)

Skip(data, off, count) == Step(off + count, Returned(None))

Seek(data, off, offset) == Step(offset, Returned(None))

Tell(data, off) == Step(off, Returned(off))

Remaining(data, off) == Step(off, Returned(Len(data) - off))

----------------------------------------------------------------------------
(* BinaryWriter: each operation maps the written bytes to the new bytes.   *)

WriteBytes(buf, data) == buf \o data

WriteString(buf, text, length, padding) ==
    LET full == Utf8Encode(text)
        encoded == IF Len(full) > length THEN PySlice(full, 0, length) ELSE full
        pad == IF Len(encoded) < length
               THEN [i \in 1..(length - Len(encoded)) |-> padding]
               ELSE <<>>
    IN  (buf \o encoded) \o pad

----------------------------------------------------------------------------
(* Preset models.                                                          *)

UnnamedPreset == <<85, 110, 110, 97, 109, 101, 100, 32, 80, 114, 101, 115, 101, 116>>
UnknownPreset == <<85, 110, 107, 110, 111, 119, 110, 32, 80, 114, 101, 115, 101, 116>>
SchemaVersion == <<49, 46, 48>>

\* PresetData(...), with __post_init__
PresetData(format, version, name, parameters, raw_data) ==
    [format |-> format,
     version |-> version,
     name |-> IF name = <<>> THEN UnnamedPreset ELSE name,
     parameters |-> parameters,
     raw_data |-> raw_data]

\* a parameters dictionary: a function from its keys to Python values, the
\* effects chain a sequence of entries
NoParameters == [k \in {} |-> None]

GP50Defaults ==
    [input_gain |-> PyInt(50), output_level |-> PyInt(50), effects_chain |-> <<>>,
     noise_gate_enabled |-> [t |-> "bool", v |-> FALSE],
     noise_gate_threshold |-> PyInt(30),
     expression_pedal_assignment |-> None]

GP5Defaults ==
    [input_gain |-> PyInt(50), output_level |-> PyInt(50), effects_chain |-> <<>>,
     noise_gate_enabled |-> [t |-> "bool", v |-> FALSE],
     noise_gate_threshold |-> PyInt(30)]

\* GP50Preset(name, version, parameters), with __post_init__
GP50Preset(name, version, parameters) ==
    [name |-> name,
     version |-> version,
     parameters |-> IF DOMAIN parameters = {} THEN GP50Defaults ELSE parameters]

\* GP5Preset(name, version, parameters), with __post_init__
GP5Preset(name, version, parameters) ==
    [name |-> name,
     version |-> version,
     parameters |-> IF DOMAIN parameters = {} THEN GP5Defaults ELSE parameters]

----------------------------------------------------------------------------
(* PresetParser.                                                           *)

GP5_SIGNATURE == <<71, 80, 53, 0>>
GP50_SIGNATURE == <<71, 80, 53, 48>>
SIGNATURE_SIZE == 4
VERSION_WIDTH == 16
NAME_WIDTH == 32

File(data) == [t |-> "file", data |-> data]

DetectFormat_EmptyIsUnknown(data) ==
    IF StartsWith(data, GP5_SIGNATURE) THEN Returned("GP5")
    ELSE IF StartsWith(data, GP50_SIGNATURE) THEN Returned("GP50")
    ELSE Returned("UNKNOWN")

DetectFormat(data) ==
    IF StartsWith(data, GP5_SIGNATURE) THEN Returned("GP5")
    ELSE IF StartsWith(data, GP50_SIGNATURE) THEN Returned("GP50")
    ELSE IF Len(data) > 0 THEN Returned("UNKNOWN")
    ELSE Raised("ValueError: Empty preset file")

ParsedParameters ==
    [input_gain |-> PyInt(0), output_level |-> PyInt(0), effects_chain |-> <<>>]

\* the body shared by _parse_gp5 and _parse_gp50
ParseHeader(format, data) ==
    LET skipped == Skip(data, 0, SIGNATURE_SIZE)
        version == ReadString(data, skipped.off, VERSION_WIDTH)
    IN  IF version.ret.status = "raised" THEN version.ret
        ELSE LET name == ReadString(data, version.off, NAME_WIDTH) IN
             IF name.ret.status = "raised" THEN name.ret
             ELSE Returned(PresetData(format, Strip(version.ret.value),
                                      Strip(name.ret.value), ParsedParameters, data))

ParseGp5(data) == ParseHeader("GP5", data)

ParseGp50(data) == ParseHeader("GP50", data)

\* parse_file on the file at the given path (None: no such file), for a parser
\* whose format_detected is fd: the new format_detected and the outcome
ParseFileOutcome(file, fd) ==
    IF file = None THEN [fd |-> fd, ret |-> Raised("FileNotFoundError")]
    ELSE LET detected == DetectFormat(file.data) IN
         IF detected.status = "raised" THEN [fd |-> fd, ret |-> detected]
         ELSE [fd |-> PyStr(detected.value),
               ret |-> IF detected.value = "GP5" THEN ParseGp5(file.data)
                       ELSE IF detected.value = "GP50" THEN ParseGp50(file.data)
                       ELSE Returned(PresetData("UNKNOWN", <<>>, UnknownPreset,
                                                NoParameters, file.data))]

----------------------------------------------------------------------------
(* PresetWriter.                                                           *)

\* the bytes write_gp50 hands to _write_file
Gp50Bytes(preset) ==
    LET signature == WriteBytes(<<>>, GP50_SIGNATURE)
        version == WriteString(signature, preset.version, VERSION_WIDTH, 0)
    IN  WriteString(version, preset.name, NAME_WIDTH, 0)

----------------------------------------------------------------------------
(* CoreConverter.  An effects chain is a sequence of entries: a reference  *)
(* to an effect dictionary on the heap, or any other Python value.         *)

Ref(id) == [t |-> "ref", id |-> id]
IsDict(entry) == entry.t = "ref"

\* conversion_rules["parameter_mapping"]
ParameterMapping == [input_gain |-> "input_gain", output_level |-> "output_level"]

\* the keys of conversion_rules["effect_mapping"]
EffectMapping == {"overdrive", "distortion", "delay", "reverb", "chorus"}

\* conversion_rules["parameter_ranges"]
ParameterRanges == [input_gain |-> <<0, 100>>, output_level |-> <<0, 100>>]

ValidateParameter_NoUpperBound(param_name, value) ==
    IF param_name \in DOMAIN ParameterRanges /\ IsNumber(value)
    THEN PyInt(Max(ParameterRanges[param_name][1], value.v))
    ELSE value

ValidateParameter_NoLowerBound(param_name, value) ==
    IF param_name \in DOMAIN ParameterRanges /\ IsNumber(value)
    THEN PyInt(Min(ParameterRanges[param_name][2], value.v))
    ELSE value

\* _validate_parameter
ValidateParameter(param_name, value) ==
    IF param_name \in DOMAIN ParameterRanges
    THEN LET min_val == ParameterRanges[param_name][1]
             max_val == ParameterRanges[param_name][2]
         IN  IF IsNumber(value)
             THEN PyInt(Max(min_val, Min(max_val, value.v)))
             ELSE value
    ELSE value

\* effect.get("type", "")
EffectType(effect) == IF "type" \in DOMAIN effect THEN effect.type ELSE PyStr("")

\* effect_type in conversion_rules["effect_mapping"]
InEffectMapping(effect_type) == effect_type.t = "str" /\ effect_type.v \in EffectMapping

\* parameters.get("effects_chain", [])
ChainOf(parameters) ==
    IF "effects_chain" \in DOMAIN parameters THEN parameters.effects_chain ELSE <<>>

ConvertedEffects_KeepEveryDict(h, chain) == SelectSeq(chain, IsDict)

\* the effects loop of convert: the entries appended to converted_effects
ConvertedEffects(h, chain) ==
    LET Keep(entry) == IsDict(entry) /\ InEffectMapping(EffectType(h[entry.id]))
    IN  SelectSeq(chain, Keep)

ConvertedParameters_CopyAll(h, parameters) ==
    [k \in DOMAIN parameters |->
        IF k = "effects_chain" THEN ConvertedEffects(h, ChainOf(parameters))
        ELSE ValidateParameter(k, parameters[k])]

\* converted_params as handed to GP50Preset
ConvertedParameters(h, parameters) ==
    LET mapped == {k \in DOMAIN ParameterMapping : k \in DOMAIN parameters}
        targets == {ParameterMapping[k] : k \in mapped}
        source(t) == CHOOSE k \in mapped : ParameterMapping[k] = t
    IN  [t \in targets \cup {"effects_chain"} |->
            IF t = "effects_chain" THEN ConvertedEffects(h, ChainOf(parameters))
            ELSE ValidateParameter(t, parameters[source(t)])]

Convert_KeepSourceVersion(h, gp5_preset) ==
    Returned(GP50Preset(gp5_preset.name, gp5_preset.version,
                        ConvertedParameters(h, gp5_preset.parameters)))

\* convert
Convert(h, gp5_preset) ==
    Returned(GP50Preset(gp5_preset.name, SchemaVersion,
                        ConvertedParameters(h, gp5_preset.parameters)))

\* the warning naming an effect type
Warning(effect_type) == [unsupported |-> effect_type]

\* the loop of check_compatibility over the chain, from (is_compatible, warnings)
RECURSIVE CompatLoop(_, _, _)
CompatLoop(h, chain, acc) ==
    IF chain = <<>> THEN acc
    ELSE LET entry == Head(chain) IN
         IF IsDict(entry) /\ ~InEffectMapping(EffectType(h[entry.id]))
         THEN CompatLoop(h, Tail(chain),
                         [is_compatible |-> FALSE,
                          warnings |-> Append(acc.warnings, Warning(EffectType(h[entry.id])))])
         ELSE CompatLoop(h, Tail(chain), acc)

CheckCompatibility_FlagNeverCleared(h, gp5_preset) ==
    Returned([CompatLoop(h, ChainOf(gp5_preset.parameters),
                         [is_compatible |-> TRUE, warnings |-> <<>>])
              EXCEPT !.is_compatible = TRUE])

\* check_compatibility
CheckCompatibility(h, gp5_preset) ==
    Returned(CompatLoop(h, ChainOf(gp5_preset.parameters),
                        [is_compatible |-> TRUE, warnings |-> <<>>]))

\* BasePreset.set_parameter
SetParameter(preset, key, value) ==
    [preset EXCEPT !.parameters =
        [k \in DOMAIN preset.parameters \cup {key} |->
            IF k = key THEN value ELSE preset.parameters[k]]]

\* add_effect: the entry is appended to the chain, created when missing
AddEffect(preset, entry) ==
    SetParameter(preset, "effects_chain", Append(ChainOf(preset.parameters), entry))

RemoveEffect_AnyPopIndex(preset, index) ==
    LET effects == ChainOf(preset.parameters) IN
    IF 0 - Len(effects) <= index /\ index < Len(effects)
    THEN [preset |-> IF "effects_chain" \in DOMAIN preset.parameters
                     THEN LET i == IF index < 0 THEN index + Len(effects) ELSE index IN
                          [preset EXCEPT !.parameters.effects_chain =
                              SubSeq(effects, 1, i) \o SubSeq(effects, i + 2, Len(effects))]
                     ELSE preset,
          ret |-> Returned(None)]
    ELSE [preset |-> preset, ret |-> Raised("IndexError")]

\* remove_effect; index counts from 0
RemoveEffect(preset, index) ==
    LET effects == ChainOf(preset.parameters) IN
    IF 0 <= index /\ index < Len(effects)
    THEN [preset |-> IF "effects_chain" \in DOMAIN preset.parameters
                     THEN [preset EXCEPT !.parameters.effects_chain =
                              SubSeq(effects, 1, index) \o SubSeq(effects, index + 2, Len(effects))]
                     ELSE preset,
          ret |-> Returned(None)]
    ELSE [preset |-> preset, ret |-> Raised("IndexError")]

\* "Unnamed GP-5 Preset" and "Unnamed GP-50 Preset"
UnnamedGP5Preset ==
    <<85, 110, 110, 97, 109, 101, 100, 32, 71, 80, 45, 53, 32, 80, 114, 101, 115, 101, 116>>
UnnamedGP50Preset ==
    <<85, 110, 110, 97, 109, 101, 100, 32, 71, 80, 45, 53, 48, 32, 80, 114, 101, 115, 101, 116>>

\* data.get(key, default) on a dictionary given as a record of its keys
DictGet(data, key, default) == IF key \in DOMAIN data THEN data[key] ELSE default

\* what from_dict assigns: name, version and parameters of data, or defaults
Loaded(format, data) ==
    [name |-> DictGet(data, "name",
                      IF format = "GP5" THEN UnnamedGP5Preset ELSE UnnamedGP50Preset),
     version |-> DictGet(data, "version", SchemaVersion),
     parameters |-> DictGet(data, "parameters", [k \in {} |-> [t |-> "none"]])]

FromDict_AssignBeforeCheck(format, preset, data) ==
    IF DictGet(data, "format", [t |-> "none"]) # PyStr(format)
    THEN [preset |-> Loaded(format, data), ret |-> Raised("ValueError")]
    ELSE [preset |-> Loaded(format, data), ret |-> Returned([t |-> "none"])]

\* GP5Preset.from_dict (format "GP5") and GP50Preset.from_dict (format "GP50")
FromDict(format, preset, data) ==
    IF DictGet(data, "format", [t |-> "none"]) # PyStr(format)
    THEN [preset |-> preset, ret |-> Raised("ValueError")]
    ELSE [preset |-> Loaded(format, data), ret |-> Returned([t |-> "none"])]

----------------------------------------------------------------------------
(* PresetValidator and the validate method of the preset models.  A        *)
(* dictionary whose iteration order matters is the sequence of its         *)
(* <<key, value>> items; an error message is a record of what it says.     *)

PyBool(b) == [t |-> "bool", v |-> b]

\* isinstance(value, (int, float)): a bool is an int
IsIntOrFloat(x) == x.t \in {"int", "bool"}

\* the number a numeric value compares as
NumberOf(x) == IF x.t = "bool" THEN (IF x.v THEN 1 ELSE 0) ELSE x.v

PARAMETER_RANGES ==
    [n \in {"input_gain", "output_level", "noise_gate_threshold", "mix", "level",
            "drive", "tone", "gain", "feedback", "rate", "depth", "bass", "mid",
            "treble", "presence", "master"} |-> <<0, 100>>]

VALID_EFFECT_TYPES ==
    {"overdrive", "distortion", "fuzz", "boost", "delay", "reverb", "chorus",
     "flanger", "phaser", "tremolo", "compressor", "eq", "wah", "amp_sim",
     "cabinet", "noise_gate"}

MAX_NAME_LENGTH == 64

\* '/', '\', ':', '*', '?', '"', '<', '>', '|'
INVALID_CHARS == <<47, 92, 58, 42, 63, 34, 60, 62, 124>>

HasKey(items, key) == \E i \in 1..Len(items) : items[i][1] = key

ValueOf(items, key) == items[CHOOSE i \in 1..Len(items) : items[i][1] = key][2]

Valid == [is_valid |-> TRUE, error |-> <<>>]
Invalid(error) == [is_valid |-> FALSE, error |-> error]

\* validate_parameter_range: (is_valid, error_message)
ValidateParameterRange(name, value) ==
    IF name \notin DOMAIN PARAMETER_RANGES THEN Valid
    ELSE IF ~IsIntOrFloat(value)
        THEN Invalid([e |-> "must be numeric", param |-> name])
    ELSE IF NumberOf(value) < PARAMETER_RANGES[name][1]
            \/ NumberOf(value) > PARAMETER_RANGES[name][2]
        THEN Invalid([e |-> "must be between", param |-> name, value |-> NumberOf(value)])
    ELSE Valid

Verdict(errors) == [is_valid |-> Len(errors) = 0, errors |-> errors]

\* the loop over "enabled" and "bypass"
RECURSIVE BooleanErrors(_, _)
BooleanErrors(effect, params) ==
    IF params = <<>> THEN <<>>
    ELSE LET param == Head(params) IN
         (IF HasKey(effect, param) /\ ValueOf(effect, param).t # "bool"
          THEN <<[e |-> "must be boolean", param |-> param]>>
          ELSE <<>>) \o BooleanErrors(effect, Tail(params))

\* the loop over effect.items()
RECURSIVE NumericErrors(_)
NumericErrors(items) ==
    IF items = <<>> THEN <<>>
    ELSE LET param == Head(items)[1]
             value == Head(items)[2]
             checked == ValidateParameterRange(param, value)
         IN  (IF param \notin {"type", "enabled", "bypass"} /\ IsIntOrFloat(value)
                 /\ ~checked.is_valid
              THEN <<checked.error>>
              ELSE <<>>) \o NumericErrors(Tail(items))

\* validate_effect: (is_valid, list_of_errors)
ValidateEffect(effect) ==
    IF ~HasKey(effect, "type")
    THEN [is_valid |-> FALSE, errors |-> <<[e |-> "missing type"]>>]
    ELSE LET effect_type == ValueOf(effect, "type").v IN
         Verdict((IF effect_type \notin VALID_EFFECT_TYPES
                  THEN <<[e |-> "unknown effect type", type |-> effect_type]>>
                  ELSE <<>>)
                 \o BooleanErrors(effect, <<"enabled", "bypass">>)
                 \o NumericErrors(effect))

\* a list is [t |-> "list", v |-> its entries], a dictionary
\* [t |-> "dict", v |-> its items]
PyList(entries) == [t |-> "list", v |-> entries]
PyDict(items) == [t |-> "dict", v |-> items]

\* the loop over enumerate(effects); i counts from 0
RECURSIVE ChainErrors(_, _)
ChainErrors(effects, i) ==
    IF i >= Len(effects) THEN <<>>
    ELSE LET effect == effects[i + 1] IN
         (IF effect.t # "dict"
          THEN <<[e |-> "must be a dictionary", index |-> i]>>
          ELSE LET v == ValidateEffect(effect.v) IN
               IF v.is_valid THEN <<>>
               ELSE [k \in 1..Len(v.errors) |-> [e |-> "effect", index |-> i, error |-> v.errors[k]]])
         \o ChainErrors(effects, i + 1)

\* validate_effects_chain: (is_valid, list_of_errors)
ValidateEffectsChain(effects) ==
    IF effects.t # "list"
    THEN [is_valid |-> FALSE, errors |-> <<[e |-> "must be a list"]>>]
    ELSE Verdict(ChainErrors(effects.v, 0))

\* the first of the invalid characters, in the order of the list, that the
\* name contains; 0 when it contains none
RECURSIVE FirstInvalidChar(_, _)
FirstInvalidChar(name, chars) ==
    IF chars = <<>> THEN 0
    ELSE IF \E i \in 1..Len(name) : name[i] = Head(chars) THEN Head(chars)
    ELSE FirstInvalidChar(name, Tail(chars))

\* validate_preset_name: (is_valid, error_message)
ValidatePresetName(name) ==
    IF name.t # "str" THEN Invalid([e |-> "must be a string"])
    ELSE IF Len(Strip(name.v)) = 0 THEN Invalid([e |-> "cannot be empty"])
    ELSE IF Len(name.v) > MAX_NAME_LENGTH THEN Invalid([e |-> "too long"])
    ELSE IF FirstInvalidChar(name.v, INVALID_CHARS) # 0
        THEN Invalid([e |-> "invalid character",
                      char |-> FirstInvalidChar(name.v, INVALID_CHARS)])
    ELSE Valid

\* the loop of sanitize_preset_name: sanitized.replace(char, '_') for each
\* invalid character in turn
RECURSIVE ReplaceInvalid(_, _)
ReplaceInvalid(sanitized, chars) ==
    IF chars = <<>> THEN sanitized
    ELSE ReplaceInvalid([i \in DOMAIN sanitized |->
                            IF sanitized[i] = Head(chars) THEN 95 ELSE sanitized[i]],
                        Tail(chars))

SanitizePresetName_NoTruncation(name) ==
    LET sanitized == ReplaceInvalid(name, INVALID_CHARS) IN
    IF Strip(sanitized) = <<>> THEN UnnamedPreset ELSE sanitized

\* sanitize_preset_name, on a name that is a string
SanitizePresetName(name) ==
    LET sanitized == PySlice(ReplaceInvalid(name, INVALID_CHARS), 0, MAX_NAME_LENGTH) IN
    IF Strip(sanitized) = <<>> THEN UnnamedPreset ELSE sanitized

\* parameters.get(key), None when the key is missing
GetParameter(parameters, key) ==
    IF key \in DOMAIN parameters THEN parameters[key] ELSE None

\* the range test of GP5Preset.validate / GP50Preset.validate on one parameter
RangeErrors(label, value) ==
    IF value # None /\ ~(0 <= NumberOf(value) /\ NumberOf(value) <= 100)
    THEN <<[e |-> "must be 0-100", param |-> label, value |-> NumberOf(value)]>>
    ELSE <<>>

\* GP5Preset.validate and GP50Preset.validate; comparing a value that is not
\* a number with 0 raises TypeError
PresetValidate(preset) ==
    LET input_gain == GetParameter(preset.parameters, "input_gain")
        output_level == GetParameter(preset.parameters, "output_level")
        effects_chain == IF "effects_chain" \in DOMAIN preset.parameters
                         THEN preset.parameters["effects_chain"] ELSE PyList(<<>>)
        Comparable(x) == x = None \/ IsIntOrFloat(x)
    IN  IF ~Comparable(input_gain) \/ ~Comparable(output_level)
        THEN Raised("TypeError")
        ELSE Returned(Verdict(
                (IF Len(Strip(preset.name)) = 0
                 THEN <<[e |-> "cannot be empty"]>> ELSE <<>>)
                \o RangeErrors("input_gain", input_gain)
                \o RangeErrors("output_level", output_level)
                \o (IF effects_chain.t # "list"
                    THEN <<[e |-> "must be a list"]>> ELSE <<>>)))

----------------------------------------------------------------------------
(* Paths and the file system.  A path is its parent directory and its      *)
(* name, the name a sequence of characters; the file system maps the       *)
(* paths of its files to their bytes.                                      *)

DOT == 46
BACKUP_SUFFIX == <<46, 98, 97, 99, 107, 117, 112>>   \* ".backup"
GP50_SUFFIX == <<46, 103, 112, 53, 48>>              \* ".gp50"
GP5_SUFFIX == <<46, 103, 112, 53>>                   \* ".gp5"

Path(parent, name) == [parent |-> parent, name |-> name]

\* str(counter), in decimal
RECURSIVE Digits(_)
Digits(n) == IF n < 10 THEN <<48 + n>> ELSE Digits(n \div 10) \o <<48 + (n % 10)>>

\* name.rfind('.'), counted from 1; 0 when there is no dot
RFindDot(name) ==
    IF \E i \in 1..Len(name) : name[i] = DOT
    THEN CHOOSE i \in 1..Len(name) :
            name[i] = DOT /\ \A j \in (i + 1)..Len(name) : name[j] # DOT
    ELSE 0

\* PurePath.suffix
Suffix(path) ==
    LET i == RFindDot(path.name) IN
    IF 1 < i /\ i < Len(path.name) THEN SubSeq(path.name, i, Len(path.name)) ELSE <<>>

\* PurePath.with_suffix
WithSuffix(path, suffix) ==
    Path(path.parent,
         SubSeq(path.name, 1, Len(path.name) - Len(Suffix(path))) \o suffix)

Exists(f, path) == path \in DOMAIN f.files

IsDir(f, dir) == dir \in f.dirs

\* the bytes of the file at path become data; its directory is created
Store(f, path, data) ==
    [dirs |-> f.dirs \cup {path.parent},
     files |-> [q \in DOMAIN f.files \cup {path} |->
                  IF q = path THEN data ELSE f.files[q]]]

\* the candidates the naming loop of create_backup goes through: index 0 is
\* file.backup, index k is file.backup<k>
BackupPath(file_path, k) ==
    WithSuffix(file_path,
               Suffix(file_path) \o BACKUP_SUFFIX \o (IF k = 0 THEN <<>> ELSE Digits(k)))

UnusedBackupPath_AlwaysFirst(f, file_path, k) == BackupPath(file_path, k)

\* the naming loop: the first candidate, from index k on, that does not exist
RECURSIVE UnusedBackupPath(_, _, _)
UnusedBackupPath(f, file_path, k) ==
    IF Exists(f, BackupPath(file_path, k))
    THEN UnusedBackupPath(f, file_path, k + 1)
    ELSE BackupPath(file_path, k)

FileStep(f, ret) == [fs |-> f, ret |-> ret]

\* shutil.copy2 may succeed or fail; a failed copy leaves no file
CopyOutcomes == {"copied", "copy fails"}

\* FileHandler.create_backup
FhCreateBackup(f, file_path, io) ==
    IF ~Exists(f, file_path) THEN FileStep(f, Raised("FileNotFoundError"))
    ELSE LET backup_path == UnusedBackupPath(f, file_path, 0) IN
         IF io = "copied"
         THEN FileStep(Store(f, backup_path, f.files[file_path]), Returned(backup_path))
         ELSE FileStep(f, Raised("IOError"))

\* PresetWriter.create_backup
PwCreateBackup(f, file_path, io) ==
    IF ~Exists(f, file_path) THEN FileStep(f, Returned(None))
    ELSE LET backup_path == UnusedBackupPath(f, file_path, 0) IN
         IF io = "copied"
         THEN FileStep(Store(f, backup_path, f.files[file_path]), Returned(backup_path))
         ELSE FileStep(f, Raised("OSError"))

\* open(path, "wb") and f.write(data): the open may fail, and the write may
\* fail after the open has truncated the file
WriteOutcomes == {"written", "open fails", "write fails"}

OpenAndWrite(f, path, data, io) ==
    IF io = "written" THEN Store(f, path, data)
    ELSE IF io = "write fails" THEN Store(f, path, <<>>)
    ELSE [f EXCEPT !.dirs = @ \cup {path.parent}]

\* PresetWriter._write_file
PwWriteFile(f, path, data, io) ==
    FileStep(OpenAndWrite(f, path, data, io),
             IF io = "written" THEN Returned(None) ELSE Raised("IOError"))

\* PresetWriter.write_gp50
PwWriteGp50(f, preset, output_path, io) ==
    PwWriteFile(f, output_path, Gp50Bytes(preset), io)

\* FileHandler.write_binary
FhWriteBinary(f, file_path, data, create_backup, copy, io) ==
    LET backed == IF create_backup /\ Exists(f, file_path)
                  THEN FhCreateBackup(f, file_path, copy)
                  ELSE FileStep(f, Returned(None))
    IN  IF backed.ret.status = "raised" THEN FileStep(backed.fs, Raised("IOError"))
        ELSE FileStep(OpenAndWrite(backed.fs, file_path, data, io),
                      IF io = "written" THEN Returned(None) ELSE Raised("IOError"))

----------------------------------------------------------------------------
(* PresetConverter, the top-level converter.                               *)

EndsWith(name, suffix) ==
    /\ Len(name) >= Len(suffix)
    /\ SubSeq(name, Len(name) - Len(suffix) + 1, Len(name)) = suffix

\* input_dir.glob("*.gp5"): the files of the directory whose name ends in .gp5
GlobGp5(f, input_dir) ==
    {q \in DOMAIN f.files : q.parent = input_dir /\ EndsWith(q.name, GP5_SUFFIX)}

\* convert_file: the file system is left as it is
PcConvertFile(f, input_path, output_path) ==
    IF ~Exists(f, input_path) THEN FileStep(f, Raised("FileNotFoundError"))
    ELSE FileStep(f, Returned(IF output_path = None
                              THEN WithSuffix(input_path, GP50_SUFFIX)
                              ELSE output_path))

\* convert_directory; listing is the order in which glob yields the files,
\* output_dir is None or a directory
PcConvertDirectory(f, input_dir, output_dir, listing) ==
    IF ~IsDir(f, input_dir) THEN FileStep(f, Raised("NotADirectoryError"))
    ELSE LET OutputPath(preset_file) ==
                 IF output_dir # None
                 THEN Path(output_dir.v, WithSuffix(preset_file, GP50_SUFFIX).name)
                 ELSE None
         IN  FileStep(f, Returned([i \in 1..Len(listing) |->
                 PcConvertFile(f, listing[i], OutputPath(listing[i])).ret.value]))

----------------------------------------------------------------------------
(* BinaryAnalyzer.                                                         *)

DEFAULT_MIN_LENGTH == 4
MAX_STRINGS == 20
MAX_BOUNDARIES == 10
BODY_WINDOW == 64
COMMON_HEADER_SIZES == <<64, 128, 256, 512>>

IsPrintable(byte) == 32 <= byte /\ byte <= 126

\* the loop of _extract_strings from position i on, with the strings found
\* and the run being accumulated
RECURSIVE ExtractLoop(_, _, _, _, _)
ExtractLoop(data, min_length, i, strings, current) ==
    IF i > Len(data) THEN [strings |-> strings, current |-> current]
    ELSE IF IsPrintable(data[i])
        THEN ExtractLoop(data, min_length, i + 1, strings, Append(current, data[i]))
    ELSE ExtractLoop(data, min_length, i + 1,
                     IF Len(current) >= min_length THEN Append(strings, current)
                     ELSE strings,
                     <<>>)

ExtractStrings_NoFinalFlush(data, min_length) ==
    PySlice(ExtractLoop(data, min_length, 1, <<>>, <<>>).strings, 0, MAX_STRINGS)

\* _extract_strings
ExtractStrings(data, min_length) ==
    LET scanned == ExtractLoop(data, min_length, 1, <<>>, <<>>)
        strings == IF Len(scanned.current) >= min_length
                   THEN Append(scanned.strings, scanned.current)
                   ELSE scanned.strings
    IN  PySlice(strings, 0, MAX_STRINGS)

\* section.count(0)
CountNulls(section) == Cardinality({i \in 1..Len(section) : section[i] = 0})

SectionsDiffer_QuarterThreshold(section1, section2) ==
    IF section1 = <<>> \/ section2 = <<>> THEN FALSE
    ELSE LET cross == CountNulls(section1) * Len(section2)
                      - CountNulls(section2) * Len(section1)
         IN  4 * (IF cross < 0 THEN 0 - cross ELSE cross) > Len(section1) * Len(section2)

\* _sections_differ: abs(null1 - null2) > 0.2 on the two null fractions
SectionsDiffer(section1, section2) ==
    IF section1 = <<>> \/ section2 = <<>> THEN FALSE
    ELSE LET cross == CountNulls(section1) * Len(section2)
                      - CountNulls(section2) * Len(section1)
         IN  5 * (IF cross < 0 THEN 0 - cross ELSE cross) > Len(section1) * Len(section2)

\* the null-run loop of _detect_structure: the runs (run_start, i) of at
\* least 4 zero bytes that a non-zero byte at index i ends, indices counted
\* from 0, in the order found; a run that reaches the end of the data is
\* not recorded
NullRuns(data) ==
    LET ZeroAt(i) == data[i + 1] = 0
        ends == {i \in 1..(Len(data) - 1) : ~ZeroAt(i) /\ ZeroAt(i - 1)}
        StartOf(i) == CHOOSE run_start \in 0..(i - 1) :
                         /\ \A j \in run_start..(i - 1) : ZeroAt(j)
                         /\ run_start = 0 \/ ~ZeroAt(run_start - 1)
        significant == {i \in ends : i - StartOf(i) >= 4}
        Nth(k) == CHOOSE i \in significant :
                     Cardinality({j \in significant : j < i}) = k - 1
    IN  [k \in 1..Cardinality(significant) |-> <<StartOf(Nth(k)), Nth(k)>>]

RECURSIVE HeaderGuess_BodyToEndOfData(_, _)
HeaderGuess_BodyToEndOfData(data, k) ==
    IF k > Len(COMMON_HEADER_SIZES) THEN 0
    ELSE LET size == COMMON_HEADER_SIZES[k]
             header_section == PySlice(data, 0, size)
             body_section == PySlice(data, size, Len(data))
         IN  IF Len(data) > size /\ body_section # <<>>
                /\ SectionsDiffer(header_section, body_section)
             THEN size
             ELSE HeaderGuess_BodyToEndOfData(data, k + 1)

\* the loop over common_header_sizes, from the k-th size on
RECURSIVE HeaderGuess(_, _)
HeaderGuess(data, k) ==
    IF k > Len(COMMON_HEADER_SIZES) THEN 0
    ELSE LET size == COMMON_HEADER_SIZES[k]
             header_section == PySlice(data, 0, size)
             body_section == IF Len(data) > size + BODY_WINDOW
                             THEN PySlice(data, size, size + BODY_WINDOW) ELSE <<>>
         IN  IF Len(data) > size /\ body_section # <<>>
                /\ SectionsDiffer(header_section, body_section)
             THEN size
             ELSE HeaderGuess(data, k + 1)

\* _detect_structure
DetectStructure(data) ==
    [header_size_guess |-> HeaderGuess(data, 1),
     section_boundaries |-> PySlice(NullRuns(data), 0, MAX_BOUNDARIES),
     checksum_location_guess |-> None]

\* f"{byte:02X}"
Hex2(byte) ==
    LET HexDigit(d) == IF d < 10 THEN 48 + d ELSE 55 + d
    IN  <<HexDigit(byte \div 16), HexDigit(byte % 16)>>

\* the differences loop of compare_files, from offset i (counted from 0) on
RECURSIVE DifferencesFrom(_, _, _, _)
DifferencesFrom(data1, data2, i, differences) ==
    IF i >= Min(Len(data1), Len(data2)) THEN differences
    ELSE DifferencesFrom(data1, data2, i + 1,
            IF data1[i + 1] # data2[i + 1]
            THEN Append(differences, [offset |-> i,
                                      file1_value |-> Hex2(data1[i + 1]),
                                      file2_value |-> Hex2(data2[i + 1])])
            ELSE differences)

Differences(data1, data2) == DifferencesFrom(data1, data2, 0, <<>>)

\* (1 - differences / longest) * 100 as the fraction num / den
Similarity(differences, longest) ==
    IF longest > 0 THEN [num |-> (longest - differences) * 100, den |-> longest]
    ELSE [num |-> 0, den |-> 1]

CompareFiles_OverFirstSize(data1, data2) ==
    LET differences == Differences(data1, data2) IN
    [file1_size |-> Len(data1),
     file2_size |-> Len(data2),
     size_difference |-> Len(data1) - Len(data2),
     byte_differences |-> Len(differences),
     first_differences |-> PySlice(differences, 0, 50),
     similarity_percentage |-> Similarity(Len(differences), Len(data1))]

\* compare_files on two files holding data1 and data2
CompareFiles(data1, data2) ==
    LET differences == Differences(data1, data2) IN
    [file1_size |-> Len(data1),
     file2_size |-> Len(data2),
     size_difference |-> Len(data1) - Len(data2),
     byte_differences |-> Len(differences),
     first_differences |-> PySlice(differences, 0, 50),
     similarity_percentage |-> Similarity(Len(differences), Max(Len(data1), Len(data2)))]

----------------------------------------------------------------------------
(* The reader as a state machine.                                          *)

ReaderBytes == {0, 65, 169, 195}

RECURSIVE SeqsUpTo(_, _)
SeqsUpTo(S, n) ==
    IF n = 0 THEN {<<>>}
    ELSE LET shorter == SeqsUpTo(S, n - 1) IN
         shorter \cup {Append(s, x) : s \in {t \in shorter : Len(t) = n - 1}, x \in S}

IdleParser == format_detected = None /\ pfile = NoCall /\ parsed = NoCall
IdleWriter == wpreset = None /\ outfile = None
IdleConverter ==
    /\ heap = <<>> /\ src = None /\ tgt = NoCall /\ compat = NoCall
    /\ edits = 0 /\ eret = NoCall
IdleClamp == vpPrev = NoCall /\ vpLast = NoCall
IdleReader == rdata = <<>> /\ roffset = 0 /\ rret = NoCall
IdleValidator == vcall = NoCall
IdleFiles ==
    /\ fs = [dirs |-> {}, files |-> <<>>]
    /\ fcall = NoCall
    /\ backupLog = <<>>
IdleAnalyzer == acall = NoCall
IdleStrings == wdata = <<>> /\ wcall = NoCall /\ rback = NoCall
IdlePresets == pclass = None /\ pobj = None /\ pcall = NoCall /\ pedits = 0
IdleUtilities == IdleValidator /\ IdleFiles /\ IdleAnalyzer /\ IdleStrings /\ IdlePresets

InitReader ==
    /\ rdata \in SeqsUpTo(ReaderBytes, MaxDataLen)
    /\ roffset = 0
    /\ rret = NoCall
    /\ IdleParser /\ IdleWriter /\ IdleConverter /\ IdleClamp /\ IdleUtilities

\* the cursor positions the model follows
Tracked(off) == off >= 0 - MaxSkew /\ off <= Len(rdata) + MaxSkew

ReaderCall(r) ==
    /\ Tracked(r.off)
    /\ roffset' = r.off
    /\ rret' = r.ret
    /\ UNCHANGED <<rdata, parserVars, writerVars, converterVars, clampVars, utilityVars>>

RdReadBytes == \E count \in 0..MaxCount : ReaderCall(ReadBytes(rdata, roffset, count))
RdReadByte == ReaderCall(ReadByte(rdata, roffset))
RdReadUint16 == \E le \in BOOLEAN : ReaderCall(ReadInteger(rdata, roffset, 2, le, FALSE))
RdReadUint32 == \E le \in BOOLEAN : ReaderCall(ReadInteger(rdata, roffset, 4, le, FALSE))
RdReadInt16 == \E le \in BOOLEAN : ReaderCall(ReadInteger(rdata, roffset, 2, le, TRUE))
RdReadInt32 == \E le \in BOOLEAN : ReaderCall(ReadInteger(rdata, roffset, 4, le, TRUE))
RdReadFloat == \E le \in BOOLEAN : ReaderCall(ReadFloat(rdata, roffset, le))
RdReadString == \E length \in 0..MaxCount : ReaderCall(ReadString(rdata, roffset, length))
RdReadCString == ReaderCall(ReadCString(rdata, roffset))
RdSkip == \E count \in 0..MaxCount : ReaderCall(Skip(rdata, roffset, count))
RdSeek == \E offset \in (0 - MaxSkew)..(Len(rdata) + MaxSkew) : ReaderCall(Seek(rdata, roffset, offset))
RdTell == ReaderCall(Tell(rdata, roffset))
RdRemaining == ReaderCall(Remaining(rdata, roffset))

NextReader ==
    \/ RdReadBytes
    \/ RdReadByte
    \/ RdReadUint16
    \/ RdReadUint32
    \/ RdReadInt16
    \/ RdReadInt32
    \/ RdReadFloat
    \/ RdReadString
    \/ RdReadCString
    \/ RdSkip
    \/ RdSeek
    \/ RdTell
    \/ RdRemaining

SpecReader == InitReader /\ [][NextReader]_vars

\* C10: after any sequence of BinaryReader operations, successful or not,
\* the cursor offset lies in 0..len(data).
C10_OffsetInBounds == roffset >= 0 /\ roffset <= Len(rdata)

\* C11: in every reader state reached by reads, skip and seek, read_bytes(n)
\* with n >= 0 either returns exactly the n bytes at offset..offset+n-1 and
\* advances the offset by n, or raises IndexError and leaves the offset
\* unchanged; it never returns fewer than n bytes.
C11_ReadBytesExactOrRaises ==
    \A n \in 0..MaxCount :
        LET r == ReadBytes(rdata, roffset, n) IN
        \/ /\ r.ret.status = "returned"
           /\ Len(r.ret.value) = n
           /\ r.off = roffset + n
           /\ \A i \in 1..n : /\ roffset + i \in DOMAIN rdata
                              /\ r.ret.value[i] = rdata[roffset + i]
        \/ /\ r.ret = Raised("IndexError")
           /\ r.off = roffset

----------------------------------------------------------------------------
(* The parser on the files a caller may hand it.                           *)

ParseFile(file) ==
    LET out == ParseFileOutcome(file, format_detected) IN
    /\ pfile' = file
    /\ format_detected' = out.fd
    /\ parsed' = out.ret
    /\ UNCHANGED <<readerVars, writerVars, converterVars, clampVars, utilityVars>>

TextChars == {0, 32, 65, 233}
Names == SeqsUpTo(TextChars, MaxNameLen)
Versions == SeqsUpTo(TextChars, MaxVersionLen)

\* the leading bytes of the two signatures, followed by arbitrary bytes
SignaturePrefixes ==
    {SubSeq(sig, 1, n) : sig \in {GP5_SIGNATURE, GP50_SIGNATURE}, n \in 0..SIGNATURE_SIZE}
RawBuffers ==
    {p \o rest : p \in SignaturePrefixes, rest \in SeqsUpTo({0, 255}, MaxRawLen)}

\* files that follow the header layout: signature, version field, name field
LayoutBuffers ==
    {WriteString(WriteString(sig, v, VERSION_WIDTH, 0), n, NAME_WIDTH, 0) :
        sig \in {GP5_SIGNATURE, GP50_SIGNATURE},
        v \in {<<>>, SchemaVersion},
        n \in SeqsUpTo({32, 65}, MaxNameLen)}

ParserInputs == {None} \cup {File(b) : b \in RawBuffers \cup LayoutBuffers}

InitParse ==
    /\ IdleReader /\ IdleParser /\ IdleWriter /\ IdleConverter /\ IdleClamp /\ IdleUtilities

ParseAnyFile == \E file \in ParserInputs : ParseFile(file)

NextParse == ParseAnyFile

SpecParse == InitParse /\ [][NextParse]_vars

----------------------------------------------------------------------------
(* Writing a GP-50 preset and parsing the written file back.               *)

InitRoundTrip ==
    /\ wpreset \in {GP50Preset(n, v, NoParameters) : n \in Names, v \in Versions}
    /\ outfile = None
    /\ IdleReader /\ IdleParser /\ IdleConverter /\ IdleClamp /\ IdleUtilities

WriteGp50 ==
    /\ outfile' = File(Gp50Bytes(wpreset))
    /\ UNCHANGED <<wpreset, readerVars, parserVars, converterVars, clampVars, utilityVars>>

ParseWritten == ParseFile(outfile)

NextRoundTrip ==
    \/ WriteGp50
    \/ ParseWritten

SpecRoundTrip == InitRoundTrip /\ [][NextRoundTrip]_vars

Fits(preset) ==
    /\ Len(Utf8Encode(preset.version)) <= VERSION_WIDTH
    /\ Len(Utf8Encode(preset.name)) <= NAME_WIDTH

ParsedWritten == outfile # None /\ pfile = outfile /\ parsed # NoCall

\* C1: for a GP-50 model whose version and name fit the field widths, parsing
\* the bytes written by write_gp50 yields a model with format GP50 and the
\* same version and name strings.
C1_RoundTripReproducesHeader ==
    (ParsedWritten /\ Fits(wpreset)) =>
        /\ parsed.status = "returned"
        /\ parsed.value.format = "GP50"
        /\ parsed.value.version = wpreset.version
        /\ parsed.value.name = wpreset.name

C9_SignatureSizedNeverRaises ==
    (parsed # NoCall /\ pfile # None /\ Len(pfile.data) >= SIGNATURE_SIZE) =>
        /\ parsed.status = "returned"
        /\ parsed.value.format \in {"GP5", "GP50", "UNKNOWN"}

----------------------------------------------------------------------------
(* The converter on a source preset, and later changes to its result.      *)

Drive == PyInt(60)
EffectOfKind(kind) ==
    IF kind = "untyped" THEN [drive |-> Drive]
    ELSE [type |-> PyStr(kind), drive |-> Drive]

\* the kinds of chain entry: a supported effect, an unsupported one, a
\* dictionary without "type", and an entry that is no dictionary
EntryKinds == {"overdrive", "unknown_fx", "untyped", "nondict"}
NonDictEntry == PyStr("overdrive")

\* the heap and the chain built from a sequence of entry kinds
HeapOfKinds(kinds) ==
    LET dicts == SelectSeq(kinds, LAMBDA k : k # "nondict")
    IN  [i \in 1..Len(dicts) |-> EffectOfKind(dicts[i])]

ChainOfKinds(kinds) ==
    [i \in 1..Len(kinds) |->
        IF kinds[i] = "nondict" THEN NonDictEntry
        ELSE Ref(Cardinality({j \in 1..i : kinds[j] # "nondict"}))]

Absent == [t |-> "absent"]
GainValues == {Absent, PyInt(0 - 10), PyInt(150), PyStr("loud")}
LevelValues == {Absent, PyInt(75)}
ConvNames == {<<65>>, <<>>, <<32>>}
ConvVersions == {SchemaVersion, <<50>>}

SourceParameters(gain, level, hasChain, chain) ==
    LET keys == {"noise_gate_threshold"}
                \cup (IF gain = Absent THEN {} ELSE {"input_gain"})
                \cup (IF level = Absent THEN {} ELSE {"output_level"})
                \cup (IF hasChain THEN {"effects_chain"} ELSE {})
    IN  [k \in keys |->
            IF k = "input_gain" THEN gain
            ELSE IF k = "output_level" THEN level
            ELSE IF k = "effects_chain" THEN chain
            ELSE PyInt(30)]

InitConvert ==
    /\ \E kinds \in SeqsUpTo(EntryKinds, MaxChain), hasChain \in BOOLEAN,
          gain \in GainValues, level \in LevelValues,
          name \in ConvNames, version \in ConvVersions :
            /\ hasChain \/ kinds = <<>>
            /\ heap = HeapOfKinds(kinds)
            /\ src = GP5Preset(name, version,
                               SourceParameters(gain, level, hasChain, ChainOfKinds(kinds)))
    /\ tgt = NoCall
    /\ compat = NoCall
    /\ edits = 0
    /\ eret = NoCall
    /\ IdleReader /\ IdleParser /\ IdleWriter /\ IdleClamp /\ IdleUtilities

otherThanConverter == <<readerVars, parserVars, writerVars, clampVars, utilityVars>>

DoConvert ==
    /\ tgt = NoCall
    /\ tgt' = Convert(heap, src)
    /\ UNCHANGED <<heap, src, compat, edits, eret, otherThanConverter>>

DoCheckCompatibility ==
    /\ compat' = CheckCompatibility(heap, src)
    /\ UNCHANGED <<heap, src, tgt, edits, eret, otherThanConverter>>

CanEdit == tgt.status = "returned" /\ edits < MaxEdits

TgtSetParameter ==
    /\ CanEdit
    /\ tgt' = Returned(SetParameter(tgt.value, "input_gain", PyInt(7)))
    /\ eret' = Returned(None)
    /\ edits' = edits + 1
    /\ UNCHANGED <<heap, src, compat, otherThanConverter>>

\* add_effect of a newly made effect dictionary
TgtAddEffect ==
    /\ CanEdit
    /\ heap' = Append(heap, EffectOfKind("reverb"))
    /\ tgt' = Returned(AddEffect(tgt.value, Ref(Len(heap) + 1)))
    /\ eret' = Returned(None)
    /\ edits' = edits + 1
    /\ UNCHANGED <<src, compat, otherThanConverter>>

TgtRemoveEffect ==
    /\ CanEdit
    /\ \E index \in 0..Len(ChainOf(tgt.value.parameters)) :
        LET r == RemoveEffect(tgt.value, index) IN
        /\ tgt' = Returned(r.preset)
        /\ eret' = r.ret
    /\ edits' = edits + 1
    /\ UNCHANGED <<heap, src, compat, otherThanConverter>>

\* preset.parameters["effects_chain"][i]["drive"] = 99 on the converted preset
TgtEditEffect ==
    /\ CanEdit
    /\ \E i \in 1..Len(ChainOf(tgt.value.parameters)) :
        LET entry == ChainOf(tgt.value.parameters)[i] IN
        /\ IsDict(entry)
        /\ heap' = [heap EXCEPT ![entry.id] =
                      [k \in DOMAIN heap[entry.id] \cup {"drive"} |->
                          IF k = "drive" THEN PyInt(99) ELSE heap[entry.id][k]]]
    /\ eret' = Returned(None)
    /\ edits' = edits + 1
    /\ UNCHANGED <<src, tgt, compat, otherThanConverter>>

NextConvert ==
    \/ DoConvert
    \/ DoCheckCompatibility
    \/ TgtSetParameter
    \/ TgtAddEffect
    \/ TgtRemoveEffect
    \/ TgtEditEffect

SpecConvert == InitConvert /\ [][NextConvert]_vars

\* what an entry of a chain holds
Deref(entry) == IF IsDict(entry) THEN heap[entry.id] ELSE entry
DerefChain(chain) == [i \in 1..Len(chain) |-> Deref(chain[i])]

\* convert has returned and its result has not been changed since
Converted == tgt.status = "returned" /\ edits = 0

\* C2: every source parameter whose key is in the rename map is in the target
\* under the renamed key, a number clamped into that key's range; no other
\* source parameter, the effects chain aside, is in the target.
C2_MappedParametersClamped ==
    Converted =>
        LET sp == src.parameters
            tp == tgt.value.parameters
        IN  /\ \A k \in DOMAIN sp \cap DOMAIN ParameterMapping :
                LET t == ParameterMapping[k]
                    lo == ParameterRanges[t][1]
                    hi == ParameterRanges[t][2]
                IN  /\ t \in DOMAIN tp
                    /\ IF IsNumber(sp[k])
                       THEN /\ IsNumber(tp[t])
                            /\ sp[k].v < lo => tp[t].v = lo
                            /\ sp[k].v > hi => tp[t].v = hi
                            /\ (sp[k].v >= lo /\ sp[k].v <= hi) => tp[t].v = sp[k].v
                       ELSE tp[t] = sp[k]
            /\ \A k \in DOMAIN sp \ (DOMAIN ParameterMapping \cup {"effects_chain"}) :
                k \notin DOMAIN tp

C2_Witness ==
    /\ Converted
    /\ "noise_gate_threshold" \in DOMAIN src.parameters
    /\ "input_gain" \in DOMAIN src.parameters
    /\ src.parameters.input_gain = PyInt(150)
    /\ tgt.value.parameters.input_gain = PyInt(100)

\* the entries the compatibility map retains
Supported(entry) ==
    /\ IsDict(entry)
    /\ "type" \in DOMAIN heap[entry.id]
    /\ heap[entry.id].type.t = "str"
    /\ heap[entry.id].type.v \in EffectMapping

\* C3: the converted chain is the subsequence of the source chain whose
\* effect type is a key of the compatibility map, in order, fields unchanged.
C3_ChainIsSupportedSubsequence ==
    Converted =>
        LET kept == SelectSeq(ChainOf(src.parameters), Supported)
            chain == ChainOf(tgt.value.parameters)
        IN  /\ "effects_chain" \in DOMAIN tgt.value.parameters
            /\ chain = kept
            /\ \A i \in 1..Len(chain) :
                  Deref(chain[i]) = EffectOfKind(Deref(chain[i]).type.v)

C3_Witness ==
    /\ Converted
    /\ Len(ChainOf(src.parameters)) = 2
    /\ Len(ChainOf(tgt.value.parameters)) = 1
    /\ ~Supported(ChainOf(src.parameters)[1])
    /\ Supported(ChainOf(src.parameters)[2])

\* C4: every entry convert leaves out is reported by check_compatibility as
\* exactly one warning, and neither call raises.
C4_EveryDroppedEntryWarned ==
    /\ tgt.status # "raised"
    /\ compat.status # "raised"
    /\ (Converted /\ compat.status = "returned") =>
          Len(compat.value.warnings) =
              Len(ChainOf(src.parameters)) - Len(ChainOf(tgt.value.parameters))

\* C5: check_compatibility returns is_compatible = true exactly when the
\* list of warnings is empty.
C5_CompatibleIffNoWarnings ==
    compat.status = "returned" =>
        (compat.value.is_compatible <=> compat.value.warnings = <<>>)

C5_Witness ==
    /\ compat.status = "returned"
    /\ ~compat.value.is_compatible
    /\ Len(compat.value.warnings) = 2

\* the source preset as a caller sees it
SourceView ==
    [name |-> src.name,
     version |-> src.version,
     parameters |-> [k \in DOMAIN src.parameters |->
                        IF k = "effects_chain" THEN DerefChain(src.parameters[k])
                        ELSE src.parameters[k]]]

\* C7: convert, check_compatibility and every later change to the converted
\* preset leave the source preset's parameters and effects chain unchanged.
C7_SourceNeverChanges == [][SourceView' = SourceView]_vars

\* a name that is empty or made of whitespace only
Blank(name) == Strip(name) = <<>>

\* C12: every preset model has a non-blank name: once convert has returned,
\* neither the directly constructed preset it was given nor the preset it
\* returned carries an empty or whitespace-only name.
C12_NamesNeverBlank ==
    tgt.status = "returned" =>
        /\ ~Blank(src.name)
        /\ ~Blank(tgt.value.name)

\* C20: the preset returned by convert has version "1.0", whatever the
\* version of the source preset, and carries the source preset's name.
C20_TargetVersionAndName ==
    Converted =>
        /\ tgt.value.version = SchemaVersion
        /\ tgt.value.name = src.name

C20_Witness == Converted /\ src.version # SchemaVersion /\ src.name # <<>>

----------------------------------------------------------------------------
(* _validate_parameter called on its own, twice in a row.                  *)

ClampNames == {"input_gain", "output_level", "noise_gate_threshold"}
ClampInts ==
    UNION {((r[1] - MaxExcess)..(r[1] + MaxExcess)) \cup ((r[2] - MaxExcess)..(r[2] + MaxExcess)) :
             r \in {ParameterRanges[k] : k \in DOMAIN ParameterRanges}}
ClampValues == {PyInt(n) : n \in ClampInts} \cup {PyStr("loud")}

Call(name, arg, value) == [status |-> "returned", name |-> name, arg |-> arg, value |-> value]

InitClamp ==
    /\ IdleReader /\ IdleParser /\ IdleWriter /\ IdleConverter /\ IdleClamp /\ IdleUtilities

DoValidateParameter ==
    \E name \in ClampNames, value \in ClampValues :
        /\ vpPrev' = vpLast
        /\ vpLast' = Call(name, value, ValidateParameter(name, value))
        /\ UNCHANGED <<readerVars, parserVars, writerVars, converterVars, utilityVars>>

NextClamp == DoValidateParameter

SpecClamp == InitClamp /\ [][NextClamp]_vars

Ranged(call) ==
    /\ call.status = "returned"
    /\ call.name \in DOMAIN ParameterRanges
    /\ IsNumber(call.arg)

\* C6: clamping a ranged numeric parameter lands in [min, max], sends values
\* above max to max and below min to min, is idempotent, and is monotonic.
C6_ClampLaws ==
    /\ Ranged(vpLast) =>
        LET lo == ParameterRanges[vpLast.name][1]
            hi == ParameterRanges[vpLast.name][2]
        IN  /\ IsNumber(vpLast.value)
            /\ vpLast.value.v >= lo /\ vpLast.value.v <= hi
            /\ vpLast.arg.v > hi => vpLast.value.v = hi
            /\ vpLast.arg.v < lo => vpLast.value.v = lo
    /\ (Ranged(vpPrev) /\ Ranged(vpLast) /\ vpPrev.name = vpLast.name) =>
        /\ vpLast.arg = vpPrev.value => vpLast.value = vpLast.arg
        /\ vpPrev.arg.v <= vpLast.arg.v => vpPrev.value.v <= vpLast.value.v

\* a value above the range was clamped, and clamping the result again kept it
C6_Witness ==
    /\ Ranged(vpPrev) /\ Ranged(vpLast) /\ vpPrev.name = vpLast.name
    /\ vpPrev.arg.v > ParameterRanges[vpPrev.name][2]
    /\ vpLast.arg = vpPrev.value
    /\ vpLast.value = vpLast.arg

----------------------------------------------------------------------------
(* The validators, each called once on an input a caller may hand it.     *)

MaxLongName == 1     \* how far a long name goes past the 64-character limit

Item(key, value) == IF value = Absent THEN <<>> ELSE <<<<key, value>>>>

\* effect dictionaries, their keys inserted in the order type, enabled,
\* bypass, drive, mix
EffectInputs ==
    {Item("type", type) \o Item("enabled", enabled) \o Item("bypass", bypass)
        \o Item("drive", drive) \o Item("mix", mix) :
        type \in {Absent, PyStr("overdrive"), PyStr("unknown_fx")},
        enabled \in {Absent, PyBool(TRUE), PyInt(1)},
        bypass \in {Absent, PyStr("no")},
        drive \in {Absent, PyInt(50), PyInt(150)},
        mix \in {Absent, PyInt(0 - 1)}}

ChainEntryInputs ==
    {PyDict(<<<<"type", PyStr("overdrive")>>, <<"drive", PyInt(60)>>>>),
     PyDict(<<<<"enabled", PyInt(1)>>>>),
     PyDict(<<<<"type", PyStr("unknown_fx")>>, <<"drive", PyInt(150)>>>>),
     PyStr("overdrive")}

ChainInputs ==
    {PyStr("overdrive")} \cup {PyList(c) : c \in SeqsUpTo(ChainEntryInputs, MaxChain)}

Fill(n, c) == [i \in 1..n |-> c]

\* names of 0..MaxNameLen characters and names around the length limit,
\* plain, blank, or starting with invalid characters
NameInputs ==
    {None}
    \cup {PyStr(Fill(n, 32)) : n \in 0..MaxNameLen}
    \cup {PyStr(prefix \o Fill(n - Len(prefix), 65)) :
            prefix \in {<<>>, <<58>>, <<58, 47>>},
            n \in (2..(2 + MaxNameLen))
                  \cup ((MAX_NAME_LENGTH - 1)..(MAX_NAME_LENGTH + MaxLongName))}

\* the strings of NameInputs, each invalid character alone, names that end
\* in an invalid character at the length limit, and a name whose first 64
\* characters are blank
SanitizeInputs ==
    {name.v : name \in NameInputs \ {None}}
    \cup {<<INVALID_CHARS[i]>> : i \in DOMAIN INVALID_CHARS}
    \cup {Fill(n, 65) \o <<124>> : n \in (MAX_NAME_LENGTH - 1)..(MAX_NAME_LENGTH + MaxLongName)}
    \cup {Fill(MAX_NAME_LENGTH, 32) \o <<65>>}

RangeInputs ==
    {<<name, value>> : name \in {"drive", "custom"},
                       value \in {PyInt(0 - 1), PyInt(0), PyInt(100), PyInt(101),
                                  PyBool(TRUE), PyStr("loud"), None}}

PresetInputs ==
    {GP5Preset(name, SchemaVersion,
               [k \in {"noise_gate_threshold"}
                      \cup (IF gain = Absent THEN {} ELSE {"input_gain"})
                      \cup (IF level = Absent THEN {} ELSE {"output_level"})
                      \cup (IF chain = Absent THEN {} ELSE {"effects_chain"}) |->
                   IF k = "input_gain" THEN gain
                   ELSE IF k = "output_level" THEN level
                   ELSE IF k = "effects_chain" THEN chain
                   ELSE PyInt(30)]) :
        name \in ConvNames,
        gain \in {Absent, None, PyInt(50), PyInt(150), PyStr("loud")},
        level \in {Absent, PyInt(0 - 1)},
        chain \in {Absent, PyList(<<>>), PyStr("overdrive")}}

InitValidate ==
    /\ vcall = NoCall
    /\ IdleReader /\ IdleParser /\ IdleWriter /\ IdleConverter /\ IdleClamp /\ IdleFiles /\ IdleAnalyzer
    /\ IdleStrings /\ IdlePresets

ValidatorCall(op, arg, ret) ==
    /\ vcall = NoCall
    /\ vcall' = [status |-> "called", op |-> op, arg |-> arg, ret |-> ret]
    /\ UNCHANGED <<readerVars, parserVars, writerVars, converterVars, clampVars, fileVars, analyzerVars,
                   stringVars, presetVars>>

VdValidateParameterRange ==
    \E in \in RangeInputs :
        ValidatorCall("validate_parameter_range", in, ValidateParameterRange(in[1], in[2]))

VdValidateEffect ==
    \E effect \in EffectInputs :
        ValidatorCall("validate_effect", effect, ValidateEffect(effect))

VdValidateEffectsChain ==
    \E effects \in ChainInputs :
        ValidatorCall("validate_effects_chain", effects, ValidateEffectsChain(effects))

VdValidatePresetName ==
    \E name \in NameInputs :
        ValidatorCall("validate_preset_name", name, ValidatePresetName(name))

VdPresetValidate ==
    \E preset \in PresetInputs :
        ValidatorCall("validate", preset, PresetValidate(preset))

VdSanitizePresetName ==
    \E name \in SanitizeInputs :
        ValidatorCall("sanitize_preset_name", name, SanitizePresetName(name))

NextValidate ==
    \/ VdValidateParameterRange
    \/ VdValidateEffect
    \/ VdValidateEffectsChain
    \/ VdValidatePresetName
    \/ VdPresetValidate
    \/ VdSanitizePresetName

SpecValidate == InitValidate /\ [][NextValidate]_vars

Called(op) == vcall.status = "called" /\ vcall.op = op

RangeOf(seq) == {seq[i] : i \in 1..Len(seq)}

\* everything that is wrong with an effect dictionary
EffectViolations(effect) ==
    (IF HasKey(effect, "type") THEN {} ELSE {[e |-> "missing type"]})
    \cup {[e |-> "unknown effect type", type |-> effect[i][2].v] :
            i \in {j \in 1..Len(effect) :
                     effect[j][1] = "type" /\ effect[j][2].v \notin VALID_EFFECT_TYPES}}
    \cup {[e |-> "must be boolean", param |-> effect[i][1]] :
            i \in {j \in 1..Len(effect) :
                     effect[j][1] \in {"enabled", "bypass"} /\ effect[j][2].t # "bool"}}
    \cup {[e |-> "must be between", param |-> effect[i][1], value |-> effect[i][2].v] :
            i \in {j \in 1..Len(effect) :
                     /\ effect[j][1] \in DOMAIN PARAMETER_RANGES
                     /\ effect[j][2].t = "int"
                     /\ (effect[j][2].v < 0 \/ effect[j][2].v > 100)}}

\* everything that is wrong with a preset name
NameViolations(name) ==
    (IF Len(Strip(name)) = 0 THEN {[e |-> "cannot be empty"]} ELSE {})
    \cup (IF Len(name) > MAX_NAME_LENGTH THEN {[e |-> "too long"]} ELSE {})
    \cup {[e |-> "invalid character", char |-> INVALID_CHARS[i]] :
            i \in {j \in 1..Len(INVALID_CHARS) :
                     \E k \in 1..Len(name) : name[k] = INVALID_CHARS[j]}}

\* C13: validation is exhaustive: the result of validate_effect lists every
\* violation of the effect, and the result of validate_preset_name lists
\* every violation of the name, not only the first one found.
C13_EveryViolationListed ==
    /\ Called("validate_effect") =>
          EffectViolations(vcall.arg) \subseteq RangeOf(vcall.ret.errors)
    /\ (Called("validate_preset_name") /\ vcall.arg.t = "str") =>
          NameViolations(vcall.arg.v) \subseteq
              (IF vcall.ret.is_valid THEN {} ELSE {vcall.ret.error})

----------------------------------------------------------------------------
(* Writes, backups and conversions on one file system.                     *)

MaxBackups == 2      \* backups made of the destination file

InputDir == "presets"
OutputDir == "converted"
Destination == Path(OutputDir, <<112>> \o GP50_SUFFIX)               \* p.gp50
InputPaths ==
    {Path(InputDir, <<97>> \o GP5_SUFFIX),                           \* a.gp5
     Path(InputDir, <<98>> \o GP5_SUFFIX),                           \* b.gp5
     Path(InputDir, <<110, 111, 116, 101, 115>>)}                    \* notes
\* the input directory is empty, holds one preset and another file, or
\* holds everything
InputListings ==
    {{}, {q \in InputPaths : q.name # <<98>> \o GP5_SUFFIX}, InputPaths}
FileContents == {<<1>>, <<2>>}
FilePreset == GP50Preset(<<65>>, SchemaVersion, NoParameters)

InitFiles ==
    /\ \E present \in InputListings, existing \in {<<>>} \cup FileContents :
          fs = [dirs |-> {InputDir} \cup (IF existing = <<>> THEN {} ELSE {OutputDir}),
                files |-> [q \in present \cup (IF existing = <<>> THEN {} ELSE {Destination}) |->
                             IF q = Destination THEN existing ELSE <<0>>]]
    /\ fcall = NoCall
    /\ backupLog = <<>>
    /\ IdleReader /\ IdleParser /\ IdleWriter /\ IdleConverter /\ IdleClamp /\ IdleValidator /\ IdleAnalyzer
    /\ IdleStrings /\ IdlePresets

Backups(f, file_path) ==
    {k \in 0..MaxBackups : Exists(f, BackupPath(file_path, k))}

MayBackup == Cardinality(Backups(fs, Destination)) < MaxBackups

\* one call: the file system it leaves, what it returned or raised, and the
\* backup it made, if any
FileCall(op, path, backup, step) ==
    /\ fs' = step.fs
    /\ fcall' = [status |-> "called", op |-> op, path |-> path,
                 create_backup |-> backup, ret |-> step.ret]
    /\ backupLog' =
          LET made == (DOMAIN step.fs.files \ DOMAIN fs.files) \ {path} IN
          IF made = {} THEN backupLog
          ELSE Append(backupLog, [path |-> CHOOSE q \in made : TRUE,
                                  content |-> fs.files[path]])
    /\ UNCHANGED <<readerVars, parserVars, writerVars, converterVars, clampVars,
                   validatorVars, analyzerVars, stringVars, presetVars>>

FsWriteGp50 ==
    \E io \in WriteOutcomes :
        FileCall("write_gp50", Destination, FALSE,
                 PwWriteGp50(fs, FilePreset, Destination, io))

FsWriteBinary ==
    \E data \in FileContents, create_backup \in BOOLEAN,
       copy \in CopyOutcomes, io \in WriteOutcomes :
        /\ create_backup => MayBackup
        /\ FileCall("write_binary", Destination, create_backup,
                    FhWriteBinary(fs, Destination, data, create_backup, copy, io))

FsFhCreateBackup ==
    \E copy \in CopyOutcomes :
        /\ MayBackup
        /\ FileCall("FileHandler.create_backup", Destination, TRUE,
                    FhCreateBackup(fs, Destination, copy))

FsPwCreateBackup ==
    \E copy \in CopyOutcomes :
        /\ MayBackup
        /\ FileCall("PresetWriter.create_backup", Destination, TRUE,
                    PwCreateBackup(fs, Destination, copy))

FsConvertFile ==
    \E input_path \in InputPaths, output_path \in {None, Destination} :
        FileCall("convert_file", <<input_path, output_path>>, FALSE,
                 PcConvertFile(fs, input_path, output_path))

Orderings(S) ==
    {listing \in [1..Cardinality(S) -> S] :
        \A i, j \in 1..Cardinality(S) : listing[i] = listing[j] => i = j}

FsConvertDirectory ==
    \E input_dir \in {InputDir, OutputDir}, output_dir \in {None, PyStr(OutputDir)} :
        \E listing \in Orderings(GlobGp5(fs, input_dir)) :
            FileCall("convert_directory", <<input_dir, output_dir>>, FALSE,
                     PcConvertDirectory(fs, input_dir, output_dir, listing))

NextFiles ==
    \/ FsWriteGp50
    \/ FsWriteBinary
    \/ FsFhCreateBackup
    \/ FsPwCreateBackup
    \/ FsConvertFile
    \/ FsConvertDirectory

SpecFiles == InitFiles /\ [][NextFiles]_vars

FileCalled(op) == fcall.status = "called" /\ fcall.op = op

\* C14: a write to a destination that already holds a file changes its bytes
\* only when a backup copy holding the previous content exists, and a
\* write_binary whose backup step fails leaves the file system as it was.
\* A write_binary called with create_backup=False is left out: its caller
\* asked for no backup.
C14_BackupBeforeOverwrite ==
    [][/\ (/\ Exists(fs, Destination)
           /\ fs'.files[Destination] # fs.files[Destination]
           /\ ~(fcall'.op = "write_binary" /\ ~fcall'.create_backup))
          => \E k \in 0..MaxBackups :
                /\ Exists(fs', BackupPath(Destination, k))
                /\ fs'.files[BackupPath(Destination, k)] = fs.files[Destination]
       /\ (/\ Exists(fs, Destination)
           /\ fcall'.op = "write_binary" /\ fcall'.create_backup
           /\ DOMAIN fs'.files = DOMAIN fs.files)
          => fs' = fs]_vars

\* C15: the k-th backup made of a file is stored under the k-th name of the
\* sequence file.backup, file.backup1, file.backup2, ..., and after any
\* writes and backups it still holds the content the file had when it was
\* made: no backup is ever overwritten.
C15_BackupsKeptUnderFreshNames ==
    \A k \in 1..Len(backupLog) :
        /\ backupLog[k].path = BackupPath(Destination, k - 1)
        /\ Exists(fs, backupLog[k].path)
        /\ fs.files[backupLog[k].path] = backupLog[k].content

C15_Witness ==
    /\ Len(backupLog) = 2
    /\ backupLog[1].content # backupLog[2].content
    /\ fs.files[Destination] # backupLog[2].content
    /\ backupLog[2].path.name = <<112>> \o GP50_SUFFIX \o BACKUP_SUFFIX \o <<49>>

\* C16: when convert_file returns, a file exists at the returned path, which
\* is the given output path, or the input path with suffix .gp50 when none
\* is given; convert_directory returns one such existing path for every
\* *.gp5 file of the input directory.
C16_ConvertedFileExists ==
    /\ (FileCalled("convert_file") /\ fcall.ret.status = "returned") =>
          /\ Exists(fs, fcall.ret.value)
          /\ fcall.ret.value = IF fcall.path[2] = None
                               THEN WithSuffix(fcall.path[1], GP50_SUFFIX)
                               ELSE fcall.path[2]
    /\ (FileCalled("convert_directory") /\ fcall.ret.status = "returned") =>
          /\ Len(fcall.ret.value) = Cardinality(GlobGp5(fs, fcall.path[1]))
          /\ \A i \in 1..Len(fcall.ret.value) :
                /\ Exists(fs, fcall.ret.value[i])
                /\ EndsWith(fcall.ret.value[i].name, GP50_SUFFIX)

----------------------------------------------------------------------------
(* The analyzer, each analysis run once on the data of a file.            *)

\* _analyze_byte_distribution: min, max and mean over the non-zero bytes, the
\* null count and percentage over the whole buffer; mean and percentage are
\* the fractions num / den. Empty data returns early, without a percentage.
AnalyzeByteDistribution(data) ==
    IF data = <<>>
    THEN [min |-> 0, max |-> 0, mean |-> [num |-> 0, den |-> 1], null_bytes |-> 0]
    ELSE LET null_bytes == Cardinality({i \in DOMAIN data : data[i] = 0})
             non_zero == SelectSeq(data, LAMBDA b : b # 0)
             values == {non_zero[i] : i \in DOMAIN non_zero}
             Sum[i \in 0..Len(non_zero)] ==
                 IF i = 0 THEN 0 ELSE Sum[i - 1] + non_zero[i]
         IN  [min |-> IF non_zero # <<>>
                      THEN CHOOSE b \in values : \A other \in values : b <= other
                      ELSE 0,
              max |-> IF non_zero # <<>>
                      THEN CHOOSE b \in values : \A other \in values : b >= other
                      ELSE 0,
              mean |-> IF non_zero # <<>>
                       THEN [num |-> Sum[Len(non_zero)], den |-> Len(non_zero)]
                       ELSE [num |-> 0, den |-> 1],
              null_bytes |-> null_bytes,
              null_percentage |-> [num |-> null_bytes * 100, den |-> Len(data)]]

DEFAULT_PATTERN_SIZE == 4
MAX_PATTERNS == 10

\* the counting pass of _find_repeating_patterns: patterns[pattern] =
\* patterns.get(pattern, 0) + 1 for the window at every offset. The dict is
\* the sequence of its <<pattern, count>> items in insertion order: a key is
\* inserted at the first offset its pattern is seen at, and its count is the
\* number of offsets holding that pattern.
CountPatterns(data, pattern_size) ==
    LET windows == Max(Len(data) - pattern_size + 1, 0)
        Pattern(i) == SubSeq(data, i + 1, i + pattern_size)
        inserted == {i \in 0..(windows - 1) : \A j \in 0..(i - 1) : Pattern(j) # Pattern(i)}
        Key(k) == Pattern(CHOOSE i \in inserted : Cardinality({j \in inserted : j < i}) = k - 1)
    IN  [k \in 1..Cardinality(inserted) |->
            <<Key(k), Cardinality({i \in 0..(windows - 1) : Pattern(i) = Key(k)})>>]

\* sorted(items, key=lambda x: x[1], reverse=True): a stable sort, so an item
\* comes after the items of greater count and after the items of equal count
\* that precede it in items
SortByCount(items) ==
    LET Place(k) ==
            Cardinality({j \in DOMAIN items : items[j][2] > items[k][2]})
            + Cardinality({j \in 1..(k - 1) : items[j][2] = items[k][2]}) + 1
    IN  [place \in DOMAIN items |-> items[CHOOSE k \in DOMAIN items : Place(k) = place]]

FindRepeatingPatterns_MoreThanOnce(data, pattern_size) ==
    LET sorted_patterns == SortByCount(CountPatterns(data, pattern_size))
        Kept(item) ==
            /\ item[1] \notin {[i \in 1..pattern_size |-> 0], [i \in 1..pattern_size |-> 255]}
            /\ item[2] > 1
    IN  PySlice(SelectSeq(sorted_patterns, Kept), 0, MAX_PATTERNS)

\* _find_repeating_patterns
FindRepeatingPatterns(data, pattern_size) ==
    LET sorted_patterns == SortByCount(CountPatterns(data, pattern_size))
        Kept(item) ==
            /\ item[1] \notin {[i \in 1..pattern_size |-> 0], [i \in 1..pattern_size |-> 255]}
            /\ item[2] > 2
    IN  PySlice(SelectSeq(sorted_patterns, Kept), 0, MAX_PATTERNS)

MaxAnalyzed == 4     \* longest buffer drawn byte by byte for the analyzer
MaxRepeats == 4      \* most repetitions of a piece in a pattern buffer

Repeat(n, piece) == [i \in 1..(n * Len(piece)) |-> piece[((i - 1) % Len(piece)) + 1]]

\* "AAAA\x00BBBB\x00\x00C"
TwoStrings == <<65, 65, 65, 65, 0, 66, 66, 66, 66, 0, 0, 67>>

\* short buffers around the limits of the printable range, buffers holding
\* about MAX_STRINGS one-character runs, and a buffer of longer strings
StringInputs ==
    {<<data, min_length>> :
        data \in SeqsUpTo({0, 32, 126, 127}, MaxAnalyzed), min_length \in {1, 2}}
    \cup {<<Repeat(n, <<65, 0>>) \o tail, 1>> :
            n \in (MAX_STRINGS - 1)..(MAX_STRINGS + 1), tail \in {<<>>, <<66>>}}
    \cup {<<TwoStrings, DEFAULT_MIN_LENGTH>>, <<TwoStrings \o <<67, 67, 67>>, DEFAULT_MIN_LENGTH>>}

\* two sections, each all zero or all non-zero, of the lengths that matter to
\* the header sizes tried
StructureInputs ==
    {Fill(a, x) \o Fill(b, y) :
        a \in {0, 5, 64, 128, 600}, b \in {0, 64, 65, 129}, x \in {0, 255}, y \in {0, 255}}
    \cup {Fill(64, 255) \o Fill(z, 0) \o Fill(65 - z, 255) : z \in {12, 13}}
    \cup {Fill(1, 255) \o Fill(z, 0) \o tail : z \in {3, 4}, tail \in {<<>>, <<255>>}}
    \cup {Repeat(n, <<0, 0, 0, 0, 255>>) : n \in (MAX_BOUNDARIES - 1)..(MAX_BOUNDARIES + 1)}

CompareInputs == SeqsUpTo({0, 255}, MaxAnalyzed - 1)

DistributionInputs == SeqsUpTo({0, 1, 255}, MaxAnalyzed - 1)

\* twelve distinct bytes: repeated, every window of the piece is a pattern
TwelveBytes == [i \in 1..12 |-> i]

\* runs of one byte, a short piece and a twelve-byte piece repeated 2 to
\* MaxRepeats times, alone, after zero padding and before a run of one byte
PatternInputs ==
    {[i \in 1..n |-> c] : n \in 0..(2 * MaxRepeats), c \in {0, 65, 255}}
    \cup {head \o Repeat(n, piece) \o tail :
            head \in {<<>>, [i \in 1..7 |-> 0]},
            n \in 2..MaxRepeats,
            piece \in {<<1, 2, 3, 4>>, TwelveBytes},
            tail \in {<<>>, <<1, 2, 3>>, [i \in 1..7 |-> 5]}}

InitAnalyze ==
    /\ acall = NoCall
    /\ IdleReader /\ IdleParser /\ IdleWriter /\ IdleConverter /\ IdleClamp
    /\ IdleValidator /\ IdleFiles /\ IdleStrings /\ IdlePresets

AnalyzerCall(op, arg, ret) ==
    /\ acall = NoCall
    /\ acall' = [status |-> "called", op |-> op, arg |-> arg, ret |-> ret]
    /\ UNCHANGED <<readerVars, parserVars, writerVars, converterVars, clampVars,
                   validatorVars, fileVars, stringVars, presetVars>>

AzExtractStrings ==
    \E in \in StringInputs :
        AnalyzerCall("_extract_strings", in, ExtractStrings(in[1], in[2]))

AzDetectStructure ==
    \E data \in StructureInputs :
        AnalyzerCall("_detect_structure", data, DetectStructure(data))

AzCompareFiles ==
    \E data1 \in CompareInputs, data2 \in CompareInputs :
        AnalyzerCall("compare_files", <<data1, data2>>, CompareFiles(data1, data2))

AzAnalyzeByteDistribution ==
    \E data \in DistributionInputs :
        AnalyzerCall("_analyze_byte_distribution", data, AnalyzeByteDistribution(data))

AzFindRepeatingPatterns ==
    \E data \in PatternInputs :
        AnalyzerCall("_find_repeating_patterns", data,
                     FindRepeatingPatterns(data, DEFAULT_PATTERN_SIZE))

NextAnalyze ==
    \/ AzExtractStrings
    \/ AzDetectStructure
    \/ AzCompareFiles
    \/ AzAnalyzeByteDistribution
    \/ AzFindRepeatingPatterns

SpecAnalyze == InitAnalyze /\ [][NextAnalyze]_vars

Analyzed(op) == acall.status = "called" /\ acall.op = op

\* 600 zero bytes followed by 64 non-zero bytes
ZerosThenData == Fill(600, 0) \o Fill(64, 255)

\* C17 as stated: analysing a buffer of 600 zero bytes followed by 64
\* non-zero bytes reports a header-size guess of 64.
C17_HeaderGuessIs64 ==
    (Analyzed("_detect_structure") /\ acall.arg = ZerosThenData) =>
        acall.ret.header_size_guess = 64

\* C17 as amended: analysing a buffer of 600 zero bytes followed by 64
\* non-zero bytes reports a header-size guess of 0, since after each of the
\* sizes 64, 128, 256 and 512 the next 64 bytes are zero like the header.
C17_HeaderGuessIsZero ==
    (Analyzed("_detect_structure") /\ acall.arg = ZerosThenData) =>
        acall.ret.header_size_guess = 0

C17_Witness ==
    /\ Analyzed("_detect_structure")
    /\ acall.arg = ZerosThenData
    /\ acall.ret.section_boundaries = <<<<0, 600>>>>

\* the maximal runs of printable bytes of at least min_length bytes, each as
\* its first and last position
PrintableRuns(data, min_length) ==
    {run \in (1..Len(data)) \X (1..Len(data)) :
        /\ run[2] - run[1] + 1 >= min_length
        /\ \A i \in run[1]..run[2] : IsPrintable(data[i])
        /\ run[1] = 1 \/ ~IsPrintable(data[run[1] - 1])
        /\ run[2] = Len(data) \/ ~IsPrintable(data[run[2] + 1])}

\* C18: string extraction returns, in order of appearance, the first 20
\* maximal runs of bytes in 32..126 that are at least min_length long, a run
\* that reaches the end of the buffer included; a shorter run is never
\* returned and no returned string spans a non-printable byte.
C18_FirstTwentyPrintableRuns ==
    Analyzed("_extract_strings") =>
        LET data == acall.arg[1]
            runs == PrintableRuns(data, acall.arg[2])
            Nth(k) == CHOOSE run \in runs :
                         Cardinality({other \in runs : other[1] < run[1]}) = k - 1
        IN  /\ Len(acall.ret) = Min(MAX_STRINGS, Cardinality(runs))
            /\ \A k \in 1..Len(acall.ret) :
                  acall.ret[k] = SubSeq(data, Nth(k)[1], Nth(k)[2])

C18_Witness ==
    /\ Analyzed("_extract_strings")
    /\ Cardinality(PrintableRuns(acall.arg[1], acall.arg[2])) > MAX_STRINGS
    /\ Len(acall.ret) = MAX_STRINGS
    /\ IsPrintable(acall.arg[1][Len(acall.arg[1])])

\* C19: comparing A with B and comparing B with A report the same
\* byte_differences count and the same similarity percentage, and the
\* similarity of two empty buffers is 0.
C19_CompareIsSymmetric ==
    Analyzed("compare_files") =>
        LET swapped == CompareFiles(acall.arg[2], acall.arg[1]) IN
        /\ acall.ret.byte_differences = swapped.byte_differences
        /\ acall.ret.similarity_percentage = swapped.similarity_percentage
        /\ (acall.arg[1] = <<>> /\ acall.arg[2] = <<>>) =>
              acall.ret.similarity_percentage.num = 0

C19_Witness ==
    /\ Analyzed("compare_files")
    /\ Len(acall.arg[1]) < Len(acall.arg[2])
    /\ acall.ret.byte_differences > 0
    /\ acall.ret.byte_differences < Len(acall.arg[1])

\* the bytes at offsets from..(to - 1), counted from 0, that are zero
ZerosIn(data, from, to) ==
    Cardinality({i \in from..(to - 1) : data[i + 1] = 0})

\* the candidate sizes c such that the buffer is longer than c + 64 bytes and
\* the percentage of zero bytes in its first c bytes differs by more than 20
\* points from the percentage in the following 64 bytes
QualifyingSizes(data) ==
    {c \in {64, 128, 256, 512} :
        /\ Len(data) > c + 64
        /\ LET gap == ZerosIn(data, 0, c) * 64 * 100 - ZerosIn(data, c, c + 64) * c * 100
           IN  (IF gap < 0 THEN 0 - gap ELSE gap) > 20 * c * 64}

\* C21: the header-size guess is the smallest candidate in {64, 128, 256, 512}
\* such that the buffer is longer than the candidate plus 64 bytes and the
\* zero-byte percentages of the header and of the following 64 bytes differ
\* by more than 20 points; the guess is 0 if no candidate qualifies.
C21_SmallestQualifyingSize ==
    Analyzed("_detect_structure") =>
        LET sizes == QualifyingSizes(acall.arg) IN
        acall.ret.header_size_guess =
            IF sizes = {} THEN 0
            ELSE CHOOSE c \in sizes : \A other \in sizes : c <= other

C21_Witness ==
    /\ Analyzed("_detect_structure")
    /\ acall.ret.header_size_guess = 128
    /\ QualifyingSizes(acall.arg) = {128}

\* the maximal runs of zero bytes of length at least 4, each as its start
\* offset and the offset just past it
ZeroRuns(data) ==
    LET n == Len(data)
        ZeroAt(i) == data[i + 1] = 0
        starts == {i \in 0..(n - 1) : ZeroAt(i) /\ (i = 0 \/ ~ZeroAt(i - 1))}
        ends == {i \in 1..n : ZeroAt(i - 1) /\ (i = n \/ ~ZeroAt(i))}
    IN  {run \in starts \X ends :
            /\ run[2] - run[1] >= 4
            /\ \A e \in ends : e > run[1] => e >= run[2]}

\* C22: the reported section boundaries are the first 10, in buffer order, of
\* the maximal runs of at least 4 zero bytes, wherever a run lies in the
\* buffer; shorter runs are never reported.
C22_BoundariesAreZeroRuns ==
    Analyzed("_detect_structure") =>
        LET runs == ZeroRuns(acall.arg)
            Nth(k) == CHOOSE run \in runs :
                         Cardinality({other \in runs : other[1] < run[1]}) = k - 1
        IN  /\ Len(acall.ret.section_boundaries) = Min(MAX_BOUNDARIES, Cardinality(runs))
            /\ \A k \in 1..Len(acall.ret.section_boundaries) :
                  acall.ret.section_boundaries[k] = Nth(k)

\* the 4-byte window of data at offset i, counted from 0
Window(data, i) == SubSeq(data, i + 1, i + 4)

Offsets(data) == 0..(Len(data) - 4)

Occurrences(data, pattern) ==
    Cardinality({i \in Offsets(data) : Window(data, i) = pattern})

FirstOffset(data, pattern) ==
    CHOOSE i \in Offsets(data) :
        /\ Window(data, i) = pattern
        /\ \A j \in Offsets(data) : Window(data, j) = pattern => i <= j

\* the patterns to report: more than two occurrences, not all zero, not all 0xFF
Reportable(data) ==
    {pattern \in {Window(data, i) : i \in Offsets(data)} :
        /\ Occurrences(data, pattern) > 2
        /\ pattern # <<0, 0, 0, 0>>
        /\ pattern # <<255, 255, 255, 255>>}

\* p comes before q: more occurrences, or as many and seen first
RankedBefore(data, p, q) ==
    \/ Occurrences(data, p) > Occurrences(data, q)
    \/ /\ Occurrences(data, p) = Occurrences(data, q)
       /\ FirstOffset(data, p) < FirstOffset(data, q)

\* C23: repeating-pattern detection counts the 4-byte window at every offset
\* and returns at most 10 (pattern, count) pairs: only patterns occurring more
\* than twice that are neither all zero nor all 0xFF, by descending count,
\* patterns of equal count by the offset of their first occurrence.
C23_TopTenRepeatingPatterns ==
    Analyzed("_find_repeating_patterns") =>
        LET data == acall.arg
            found == acall.ret
            wanted == Reportable(data)
        IN  /\ Len(found) = Min(10, Cardinality(wanted))
            /\ \A k \in DOMAIN found :
                  /\ found[k][1] \in wanted
                  /\ found[k][2] = Occurrences(data, found[k][1])
                  /\ Cardinality({p \in wanted : RankedBefore(data, p, found[k][1])}) = k - 1

\* more than ten reportable patterns, of two different counts
C23_Witness ==
    /\ Analyzed("_find_repeating_patterns")
    /\ Cardinality(Reportable(acall.arg)) > 10
    /\ Len(acall.ret) = 10
    /\ acall.ret[1][2] > acall.ret[10][2]

\* C27: for every buffer, the empty buffer and a buffer of only zero bytes
\* included, the byte-distribution report holds the minimum and maximum over
\* the non-zero bytes (0 when there is none), the count of zero bytes and the
\* percentage of zero bytes over the whole buffer.
C27_DistributionReportComplete ==
    Analyzed("_analyze_byte_distribution") =>
        LET data == acall.arg
            report == acall.ret
            non_zero == {data[i] : i \in DOMAIN data} \ {0}
            zeros == Cardinality({i \in DOMAIN data : data[i] = 0})
        IN  /\ {"min", "max", "null_bytes", "null_percentage"} \subseteq DOMAIN report
            /\ report.min = (IF non_zero = {} THEN 0
                             ELSE CHOOSE b \in non_zero : \A c \in non_zero : b <= c)
            /\ report.max = (IF non_zero = {} THEN 0
                             ELSE CHOOSE b \in non_zero : \A c \in non_zero : b >= c)
            /\ report.null_bytes = zeros
            /\ report.null_percentage.num * Max(Len(data), 1)
                   = zeros * 100 * report.null_percentage.den

\* C28: over any sequence of parse_file calls on one PresetParser,
\* format_detected is the format tag of the model returned by the most recent
\* successful call; a call that raises (missing file, empty file, buffer too
\* short for the header) leaves format_detected unchanged.
C28_FormatDetectedFollowsSuccess ==
    [][/\ parsed'.status = "returned" => format_detected' = PyStr(parsed'.value.format)
       /\ parsed'.status = "raised" => format_detected' = format_detected]_vars

\* the source preset has numeric input_gain and output_level
NumericSource ==
    /\ {"input_gain", "output_level"} \subseteq DOMAIN src.parameters
    /\ IsNumber(src.parameters.input_gain)
    /\ IsNumber(src.parameters.output_level)

\* the converted preset as GP50Preset.validate reads it: its effects chain is
\* a Python list
ConvertedPreset ==
    [tgt.value EXCEPT !.parameters =
        [k \in DOMAIN tgt.value.parameters |->
            IF k = "effects_chain" THEN PyList(tgt.value.parameters[k])
            ELSE tgt.value.parameters[k]]]

\* C29: for every source preset whose input_gain and output_level are
\* numeric, GP50Preset.validate reports no parameter-range error on the preset
\* returned by convert: its input_gain and output_level lie in 0..100.
C29_ConvertedPassesRangeCheck ==
    (Converted /\ NumericSource) =>
        LET verdict == PresetValidate(ConvertedPreset)
            tp == tgt.value.parameters
        IN  /\ verdict.status = "returned"
            /\ \A i \in DOMAIN verdict.value.errors :
                  verdict.value.errors[i].e # "must be 0-100"
            /\ \A k \in {"input_gain", "output_level"} :
                  k \in DOMAIN tp /\ IsNumber(tp[k]) /\ 0 <= tp[k].v /\ tp[k].v <= 100

\* a source gain above the range and one below it, converted
C29_Witness ==
    /\ Converted /\ NumericSource
    /\ src.parameters.input_gain \in {PyInt(150), PyInt(0 - 10)}
    /\ \A i \in DOMAIN PresetValidate(ConvertedPreset).value.errors :
          PresetValidate(ConvertedPreset).value.errors[i].e # "must be 0-100"

\* C30: for every name string, sanitize_preset_name returns a name that
\* validate_preset_name accepts (not blank, at most 64 characters, none of
\* / \ : * ? " < > |), and sanitizing a sanitized name returns it unchanged.
C30_SanitizedNameIsValid ==
    Called("sanitize_preset_name") =>
        /\ ValidatePresetName(PyStr(vcall.ret)).is_valid
        /\ Len(Strip(vcall.ret)) > 0
        /\ Len(vcall.ret) <= 64
        /\ \A i \in DOMAIN vcall.ret :
              vcall.ret[i] \notin {47, 92, 58, 42, 63, 34, 60, 62, 124}
        /\ SanitizePresetName(vcall.ret) = vcall.ret

\* a name over the length limit that holds an invalid character
C30_Witness ==
    /\ Called("sanitize_preset_name")
    /\ Len(vcall.arg) > 64
    /\ \E i \in DOMAIN vcall.arg : vcall.arg[i] \in {58, 124}
    /\ vcall.ret # vcall.arg

-----------------------------------------------------------------------------
(* BinaryWriter.write_string, and a BinaryReader over the written bytes    *)
(* reading each string back from where it was written.                     *)

MaxTextLen == 2      \* longest text written
MaxWidth == 3        \* widest field written
MaxWrites == 2       \* most write_string calls on one writer

\* 'A', 'e' with acute accent, the euro sign, and the NUL character
WrittenChars == {0, 65, 233, 8364}
WrittenTexts == SeqsUpTo(WrittenChars, MaxTextLen)

InitWriteString ==
    /\ wdata \in {<<>>, <<7>>}
    /\ wcall = NoCall
    /\ rback = NoCall
    /\ IdleReader /\ IdleParser /\ IdleWriter /\ IdleConverter /\ IdleClamp
    /\ IdleValidator /\ IdleFiles /\ IdleAnalyzer /\ IdlePresets

otherThanStrings ==
    <<readerVars, parserVars, writerVars, converterVars, clampVars,
      validatorVars, fileVars, analyzerVars, presetVars>>

\* the number of write_string calls made so far
Writes == IF wcall = NoCall THEN 0 ELSE wcall.nth

\* writer.write_string(text, length), with the default encoding and padding
WsWriteString ==
    /\ Writes < MaxWrites
    /\ \E text \in WrittenTexts, length \in 0..MaxWidth :
        /\ wdata' = WriteString(wdata, text, length, 0)
        /\ wcall' = [status |-> "called", text |-> text, length |-> length,
                     before |-> wdata, nth |-> Writes + 1]
    /\ rback' = NoCall
    /\ UNCHANGED otherThanStrings

\* reader = BinaryReader(writer.get_bytes()); reader.seek(start of the last
\* string); reader.read_string(length)
WsReadBack ==
    /\ wcall.status = "called"
    /\ rback = NoCall
    /\ rback' = ReadString(wdata, Len(wcall.before), wcall.length).ret
    /\ UNCHANGED <<wdata, wcall, otherThanStrings>>

NextWriteString ==
    \/ WsWriteString
    \/ WsReadBack

SpecWriteString == InitWriteString /\ [][NextWriteString]_vars

IsPrefix(p, text) == Len(p) <= Len(text) /\ p = SubSeq(text, 1, Len(p))

\* C24: write_string(text, L) appends exactly L bytes, the first min(len, L)
\* bytes of the encoded text followed by padding, and leaves the bytes
\* written before unchanged; reading the L bytes back with read_string(L)
\* returns the text truncated to L bytes when the text has no zero byte: a
\* prefix of the text, and the whole text when its encoding fits in L bytes.
C24_WriteStringThenReadString ==
    wcall.status = "called" =>
        LET encoded == Utf8Encode(wcall.text)
            kept == Min(Len(encoded), wcall.length)
            written == SubSeq(wdata, Len(wcall.before) + 1, Len(wdata))
        IN  /\ Len(wdata) = Len(wcall.before) + wcall.length
            /\ SubSeq(wdata, 1, Len(wcall.before)) = wcall.before
            /\ SubSeq(written, 1, kept) = SubSeq(encoded, 1, kept)
            /\ \A i \in (kept + 1)..wcall.length : written[i] = 0
            /\ (rback.status # "none" /\ \A i \in DOMAIN wcall.text : wcall.text[i] # 0) =>
                  /\ rback.status = "returned"
                  /\ IsPrefix(rback.value, wcall.text)
                  /\ Len(encoded) <= wcall.length => rback.value = wcall.text

-----------------------------------------------------------------------------
(* A GP5Preset or GP50Preset under a sequence of add_effect, remove_effect *)
(* and from_dict calls.  An effect is a dictionary value; the model does   *)
(* not follow object identity here.                                        *)

MaxPresetCalls == 3  \* most calls made on one preset
MaxIndexSkew == 2    \* how far a remove_effect index lies outside the chain

Effects == {[type |-> PyStr("reverb")], [type |-> PyStr("delay")]}

\* constructed with defaults, without an effects chain, and with one effect
PresetParameters ==
    {NoParameters,
     [input_gain |-> PyInt(50)],
     [input_gain |-> PyInt(50), effects_chain |-> <<[type |-> PyStr("chorus")]>>]}

\* dictionaries with and without each of the four keys
DictInputs ==
    {[k \in keys \cup {"name"} |->
        IF k = "format" THEN format
        ELSE IF k = "name" THEN <<66>>
        ELSE IF k = "version" THEN <<50>>
        ELSE [output_level |-> PyInt(5)]] :
            keys \in SUBSET {"format", "version", "parameters"},
            format \in {PyStr("GP5"), PyStr("GP50"), PyStr("UNKNOWN"), None}}
    \cup {[k \in {"format"} |-> PyStr(format)] : format \in {"GP5", "GP50"}}

InitPreset ==
    /\ pclass \in {"GP5", "GP50"}
    /\ \E parameters \in PresetParameters :
          pobj = IF pclass = "GP5" THEN GP5Preset(<<65>>, SchemaVersion, parameters)
                 ELSE GP50Preset(<<65>>, SchemaVersion, parameters)
    /\ pcall = NoCall
    /\ pedits = 0
    /\ IdleReader /\ IdleParser /\ IdleWriter /\ IdleConverter /\ IdleClamp
    /\ IdleValidator /\ IdleFiles /\ IdleAnalyzer /\ IdleStrings

PresetCall(op, arg, step) ==
    /\ pedits < MaxPresetCalls
    /\ pobj' = step.preset
    /\ pcall' = [status |-> "called", op |-> op, arg |-> arg, ret |-> step.ret]
    /\ pedits' = pedits + 1
    /\ UNCHANGED <<pclass, readerVars, parserVars, writerVars, converterVars, clampVars,
                   validatorVars, fileVars, analyzerVars, stringVars>>

PsAddEffect ==
    \E effect \in Effects :
        PresetCall("add_effect", effect,
                   [preset |-> AddEffect(pobj, effect), ret |-> Returned(None)])

PsRemoveEffect ==
    \E index \in (0 - MaxIndexSkew)..(Len(ChainOf(pobj.parameters)) + MaxIndexSkew - 1) :
        PresetCall("remove_effect", index, RemoveEffect(pobj, index))

PsFromDict ==
    \E data \in DictInputs :
        PresetCall("from_dict", data, FromDict(pclass, pobj, data))

NextPreset ==
    \/ PsAddEffect
    \/ PsRemoveEffect
    \/ PsFromDict

SpecPreset == InitPreset /\ [][NextPreset]_vars

PresetCalled(op) == pcall.status = "called" /\ pcall.op = op

\* C25: each add_effect appends the effect at the end of the chain; each
\* remove_effect with an index in 0..len-1 deletes the element at that index
\* and keeps the order of the others; with any other index, a negative one
\* included, it raises IndexError and leaves the chain unchanged.
C25_ChainFollowsEdits ==
    [][LET before == ChainOf(pobj.parameters)
           after == ChainOf(pobj'.parameters)
           index == pcall'.arg
       IN  /\ pcall'.op = "add_effect" =>
                 after = Append(before, pcall'.arg) /\ pcall'.ret = Returned(None)
           /\ (pcall'.op = "remove_effect" /\ 0 <= index /\ index < Len(before)) =>
                 /\ pcall'.ret = Returned(None)
                 /\ after = [j \in 1..(Len(before) - 1) |->
                                IF j <= index THEN before[j] ELSE before[j + 1]]
           /\ (pcall'.op = "remove_effect" /\ ~(0 <= index /\ index < Len(before))) =>
                 /\ pcall'.ret = Raised("IndexError")
                 /\ after = before
                 /\ pobj' = pobj]_vars

\* after two effects were added to a chain of one, remove_effect(-1) raised
C25_Witness ==
    /\ PresetCalled("remove_effect")
    /\ pcall.arg = 0 - 1
    /\ pcall.ret = Raised("IndexError")
    /\ Len(ChainOf(pobj.parameters)) = 3

\* C26: from_dict with a dictionary whose format tag differs from the
\* preset's own format raises ValueError and leaves name, version and
\* parameters unchanged.
C26_WrongFormatRejected ==
    [][(pcall'.op = "from_dict"
        /\ ("format" \notin DOMAIN pcall'.arg \/ pcall'.arg.format # PyStr(pclass))) =>
            /\ pcall'.ret = Raised("ValueError")
            /\ pobj'.name = pobj.name
            /\ pobj'.version = pobj.version
            /\ pobj'.parameters = pobj.parameters]_vars

\* a GP-5 preset refused a GP-50 dictionary that carries another name
C26_Witness ==
    /\ PresetCalled("from_dict")
    /\ pclass = "GP5"
    /\ "format" \in DOMAIN pcall.arg /\ pcall.arg.format = PyStr("GP50")
    /\ "name" \in DOMAIN pcall.arg /\ pcall.arg.name # pobj.name
    /\ pcall.ret = Raised("ValueError")

=============================================================================
